---- MODULE Spec2Model ----
(***************************************************************************)
(* The container codec of stegafy (src/src/App.tsx, lines 1137-1445):      *)
(* embedFiles, checkForHiddenData, extractFiles, reEmbedFiles, xorEncrypt  *)
(* and the base64 / UTF-8 / JSON conversions they go through.              *)
(*                                                                         *)
(* Representation.  A byte buffer (ArrayBuffer, Uint8Array) is a sequence  *)
(* of numbers 0..255.  A JavaScript string is the sequence of its UTF-16   *)
(* code units (0..65535).  A JavaScript value that came out of JSON.parse  *)
(* is a tagged record (see JNull .. JObj); `undefined` is JUndefined.      *)
(* TLC's integers are 32-bit signed, so a length that may reach 2^32 is    *)
(* carried as two halves (hi, lo) with value hi * 65536 + lo.              *)
(***************************************************************************)
EXTENDS Integers, Sequences, FiniteSets, TLC

\* ------------------------------------------------------------------------
\* Bytes and bit operations
\* ------------------------------------------------------------------------

RECURSIVE BitXor(_, _)
\* a ^ b on non-negative integers, bit by bit.
BitXor(a, b) ==
  IF a = 0 THEN b
  ELSE IF b = 0 THEN a
  ELSE (((a % 2) + (b % 2)) % 2) + 2 * BitXor(a \div 2, b \div 2)

RECURSIVE FlattenRange(_, _, _)
\* ss[from] \o ... \o ss[to], halving the range.
FlattenRange(ss, from, to) ==
  IF to < from THEN <<>>
  ELSE IF to = from THEN ss[from]
  ELSE LET mid == (from + to) \div 2
       IN FlattenRange(ss, from, mid) \o FlattenRange(ss, mid + 1, to)

\* Concatenation of a sequence of sequences.
Flatten(ss) == FlattenRange(ss, 1, Len(ss))

\* ------------------------------------------------------------------------
\* TextEncoder / TextDecoder (UTF-8, as the platform defines them)
\* ------------------------------------------------------------------------

IsHighSurrogate(c) == c >= 55296 /\ c <= 56319   \* D800..DBFF
IsLowSurrogate(c)  == c >= 56320 /\ c <= 57343   \* DC00..DFFF

\* The UTF-8 bytes of one code point.
Utf8OfCodePoint(cp) ==
  IF cp < 128 THEN << cp >>
  ELSE IF cp < 2048 THEN << 192 + (cp \div 64), 128 + (cp % 64) >>
  ELSE IF cp < 65536
    THEN << 224 + (cp \div 4096), 128 + ((cp \div 64) % 64), 128 + (cp % 64) >>
  ELSE << 240 + (cp \div 262144), 128 + ((cp \div 4096) % 64),
          128 + ((cp \div 64) % 64), 128 + (cp % 64) >>

\* new TextEncoder().encode(s): a surrogate pair is one code point, a lone
\* surrogate is encoded as U+FFFD.  (A low surrogate right after a high one
\* is always the second half of a pair.)
TextEncode(s) ==
  Flatten([i \in 1..Len(s) |->
    IF IsHighSurrogate(s[i]) /\ i < Len(s) /\ IsLowSurrogate(s[i + 1])
      THEN Utf8OfCodePoint(65536 + (s[i] - 55296) * 1024 + (s[i + 1] - 56320))
    ELSE IF IsLowSurrogate(s[i]) /\ i > 1 /\ IsHighSurrogate(s[i - 1]) THEN <<>>
    ELSE IF IsHighSurrogate(s[i]) \/ IsLowSurrogate(s[i]) THEN Utf8OfCodePoint(65533)
    ELSE Utf8OfCodePoint(s[i])])

\* The UTF-16 code units of one code point.
Utf16OfCodePoint(cp) ==
  IF cp < 65536 THEN << cp >>
  ELSE << 55296 + ((cp - 65536) \div 1024), 56320 + ((cp - 65536) % 1024) >>

\* The WHATWG UTF-8 decoder in replacement mode (TextDecoder's default,
\* fatal = false), position by position.  A lead byte (C2..F4) always starts
\* a sequence; it expects Utf8Need continuation bytes, the first of them in
\* Utf8Lower..Utf8Upper and the others in 80..BF.
Utf8Need(x) ==
  IF x >= 194 /\ x <= 223 THEN 1
  ELSE IF x >= 224 /\ x <= 239 THEN 2
  ELSE IF x >= 240 /\ x <= 244 THEN 3
  ELSE 0

Utf8Lower(x) == IF x = 224 THEN 160 ELSE IF x = 240 THEN 144 ELSE 128
Utf8Upper(x) == IF x = 237 THEN 159 ELSE IF x = 244 THEN 143 ELSE 191

\* Do the bytes b[j+1..k] continue the sequence the lead byte b[j] starts?
Utf8Continues(b, j, k) ==
  /\ k <= Len(b)
  /\ k - j <= Utf8Need(b[j])
  /\ \A m \in (j + 1)..k :
       IF m = j + 1 THEN b[m] >= Utf8Lower(b[j]) /\ b[m] <= Utf8Upper(b[j])
       ELSE b[m] >= 128 /\ b[m] <= 191

\* What the decoder emits for position i: an ASCII byte is itself; a lead
\* byte is its code point if its sequence is complete and U+FFFD if not; a
\* continuation byte that belongs to a sequence is silent; any other byte is
\* U+FFFD.
Utf8DecodeAt(b, i) ==
  LET x == b[i] IN
  IF x < 128 THEN << x >>
  ELSE IF Utf8Need(x) > 0 THEN
    LET n == Utf8Need(x) IN
    IF Utf8Continues(b, i, i + n)
      THEN Utf16OfCodePoint(
             IF n = 1 THEN (x % 32) * 64 + (b[i + 1] % 64)
             ELSE IF n = 2 THEN (x % 16) * 4096 + (b[i + 1] % 64) * 64 + (b[i + 2] % 64)
             ELSE (x % 8) * 262144 + (b[i + 1] % 64) * 4096
                  + (b[i + 2] % 64) * 64 + (b[i + 3] % 64))
      ELSE << 65533 >>
  ELSE IF x <= 191 /\ \E j \in 1..3 :
            i - j >= 1 /\ Utf8Need(b[i - j]) > 0 /\ Utf8Continues(b, i - j, i)
    THEN <<>>
  ELSE << 65533 >>

\* new TextDecoder().decode(b): never throws (fatal is false) and drops one
\* leading byte order mark (ignoreBOM is false).
TextDecode(b) ==
  LET units == Flatten([i \in 1..Len(b) |-> Utf8DecodeAt(b, i)])
  IN IF units # <<>> /\ units[1] = 65279 THEN Tail(units) ELSE units

\* ------------------------------------------------------------------------
\* btoa / atob
\* ------------------------------------------------------------------------

\* The base64 alphabet: A-Z a-z 0-9 + /
B64Char(v) ==
  IF v < 26 THEN 65 + v
  ELSE IF v < 52 THEN 71 + v
  ELSE IF v < 62 THEN v - 4
  ELSE IF v = 62 THEN 43 ELSE 47

\* The value of a base64 character, -1 for any other code unit.
B64Val(c) ==
  IF c >= 65 /\ c <= 90 THEN c - 65
  ELSE IF c >= 97 /\ c <= 122 THEN c - 71
  ELSE IF c >= 48 /\ c <= 57 THEN c + 4
  ELSE IF c = 43 THEN 62
  ELSE IF c = 47 THEN 63
  ELSE -1

\* btoa(s) for a binary string s (every code unit a byte): the k-th output
\* character takes six bits of the group of three bytes it falls in; a last
\* group of one or two bytes is padded with '='.
Btoa(s) ==
  LET at(j) == IF j <= Len(s) THEN s[j] ELSE 0
  IN [k \in 1..(4 * ((Len(s) + 2) \div 3)) |->
        LET g == 3 * ((k - 1) \div 4)      \* bytes before this group
            q == (k - 1) % 4
        IN IF q = 0 THEN B64Char(at(g + 1) \div 4)
           ELSE IF q = 1 THEN B64Char((at(g + 1) % 4) * 16 + (at(g + 2) \div 16))
           ELSE IF q = 2 THEN
             (IF g + 2 > Len(s) THEN 61
              ELSE B64Char((at(g + 2) % 16) * 4 + (at(g + 3) \div 64)))
           ELSE (IF g + 3 > Len(s) THEN 61 ELSE B64Char(at(g + 3) % 64))]

IsAsciiWhitespace(c) == c \in {9, 10, 12, 13, 32}

\* The bytes of base64 data `s` (whitespace and padding already removed, every
\* character in the alphabet, Len(s) % 4 # 1): 3 bytes per 4 characters, and
\* 1 or 2 bytes for a last group of 2 or 3.
AtobDecode(s) ==
  LET n == 3 * (Len(s) \div 4)
           + (IF Len(s) % 4 = 0 THEN 0 ELSE (Len(s) % 4) - 1)
  IN [k \in 1..n |->
        LET g == 4 * ((k - 1) \div 3)      \* characters before this group
            q == (k - 1) % 3
        IN IF q = 0 THEN B64Val(s[g + 1]) * 4 + (B64Val(s[g + 2]) \div 16)
           ELSE IF q = 1 THEN (B64Val(s[g + 2]) % 16) * 16 + (B64Val(s[g + 3]) \div 4)
           ELSE (B64Val(s[g + 3]) % 4) * 64 + B64Val(s[g + 4])]

\* atob(s), the forgiving-base64 decode: [ok |-> FALSE] is the
\* InvalidCharacterError it throws.
Atob(s) ==
  LET t == SelectSeq(s, LAMBDA c : ~IsAsciiWhitespace(c))
      u == IF Len(t) % 4 = 0 /\ Len(t) >= 2 /\ t[Len(t)] = 61 /\ t[Len(t) - 1] = 61
             THEN SubSeq(t, 1, Len(t) - 2)
           ELSE IF Len(t) % 4 = 0 /\ Len(t) >= 1 /\ t[Len(t)] = 61
             THEN SubSeq(t, 1, Len(t) - 1)
           ELSE t
  IN IF Len(u) % 4 = 1 \/ \E k \in 1..Len(u) : B64Val(u[k]) = -1
       THEN [ok |-> FALSE, bytes |-> <<>>]
       ELSE [ok |-> TRUE, bytes |-> AtobDecode(u)]

\* ------------------------------------------------------------------------
\* JavaScript values, JSON.stringify and JSON.parse
\* ------------------------------------------------------------------------

JUndefined == [t |-> "undefined"]
JNull      == [t |-> "null"]
JBool(b)   == [t |-> "bool", b |-> b]
JNum(n)    == [t |-> "num", n |-> n]        \* an integer of at most 9 digits
JReal(lex) == [t |-> "real", lex |-> lex]   \* any other number, by its lexeme
JStr(s)    == [t |-> "str", s |-> s]
JArr(a)    == [t |-> "arr", a |-> a]
JObj(o)    == [t |-> "obj", o |-> o]        \* o: sequence of [k |-> key, v |-> value]

\* obj[key] for a parsed value: the own property, else undefined.  (A string,
\* number, boolean or array has none of the property names the codec reads.)
GetProp(obj, key) ==
  IF obj.t = "obj" /\ \E j \in 1..Len(obj.o) : obj.o[j].k = key
    THEN obj.o[CHOOSE j \in 1..Len(obj.o) : obj.o[j].k = key].v
    ELSE JUndefined

\* !!v
Truthy(v) ==
  CASE v.t = "undefined" -> FALSE
    [] v.t = "null" -> FALSE
    [] v.t = "bool" -> v.b
    [] v.t = "num" -> v.n # 0
    [] v.t = "real" ->
         \E j \in 1..Len(v.lex) :
           /\ v.lex[j] >= 49 /\ v.lex[j] <= 57
           /\ \A m \in 1..(j - 1) : v.lex[m] \notin {101, 69}
    [] v.t = "str" -> v.s # <<>>
    [] OTHER -> TRUE

HexDigitLower(d) == IF d < 10 THEN 48 + d ELSE 87 + d

\* \uXXXX
UnicodeEscape(c) ==
  << 92, 117, HexDigitLower(c \div 4096), HexDigitLower((c \div 256) % 16),
     HexDigitLower((c \div 16) % 16), HexDigitLower(c % 16) >>

\* QuoteJSONString(s) (ECMA-262 25.5.2.3, well-formed JSON.stringify): the
\* two halves of a surrogate pair are kept, a lone surrogate is escaped.
Quote(s) ==
  << 34 >>
  \o Flatten([i \in 1..Len(s) |->
       LET c == s[i] IN
       IF \/ IsHighSurrogate(c) /\ i < Len(s) /\ IsLowSurrogate(s[i + 1])
          \/ IsLowSurrogate(c) /\ i > 1 /\ IsHighSurrogate(s[i - 1])
         THEN << c >>
       ELSE
         CASE c = 8 -> << 92, 98 >>
           [] c = 9 -> << 92, 116 >>
           [] c = 10 -> << 92, 110 >>
           [] c = 12 -> << 92, 102 >>
           [] c = 13 -> << 92, 114 >>
           [] c = 34 -> << 92, 34 >>
           [] c = 92 -> << 92, 92 >>
           [] c < 32 /\ c \notin {8, 9, 10, 12, 13} -> UnicodeEscape(c)
           [] IsHighSurrogate(c) \/ IsLowSurrogate(c) -> UnicodeEscape(c)
           [] OTHER -> << c >>])
  \o << 34 >>

RECURSIVE NatToString(_)
NatToString(n) ==
  IF n < 10 THEN << 48 + n >> ELSE NatToString(n \div 10) \o << 48 + (n % 10) >>

\* Number::toString for an integer.
NumToString(n) == IF n < 0 THEN << 45 >> \o NatToString(0 - n) ELSE NatToString(n)

\* The pieces separated by the code unit sep.
JoinWith(pieces, sep) ==
  Flatten([j \in 1..Len(pieces) |->
             IF j = 1 THEN pieces[j] ELSE << sep >> \o pieces[j]])

RECURSIVE Stringify(_)
\* JSON.stringify(v) for a value that is not undefined: an undefined property
\* is left out, an undefined array element is written null.
Stringify(v) ==
  CASE v.t = "null" -> << 110, 117, 108, 108 >>
    [] v.t = "bool" -> IF v.b THEN << 116, 114, 117, 101 >>
                              ELSE << 102, 97, 108, 115, 101 >>
    [] v.t = "num" -> NumToString(v.n)
    [] v.t = "real" -> v.lex
    [] v.t = "str" -> Quote(v.s)
    [] v.t = "arr" ->
         << 91 >>
         \o JoinWith([j \in 1..Len(v.a) |->
                        IF v.a[j].t = "undefined" THEN << 110, 117, 108, 108 >>
                        ELSE Stringify(v.a[j])], 44)
         \o << 93 >>
    [] v.t = "obj" ->
         LET kept == SelectSeq(v.o, LAMBDA m : m.v.t # "undefined") IN
         << 123 >>
         \o JoinWith([j \in 1..Len(kept) |->
                        Quote(kept[j].k) \o << 58 >> \o Stringify(kept[j].v)], 44)
         \o << 125 >>

ParseFail == [ok |-> FALSE, v |-> JUndefined, i |-> 0]
ParseOk(v, i) == [ok |-> TRUE, v |-> v, i |-> i]

IsJsonWhitespace(c) == c \in {9, 10, 13, 32}
IsDigit(c) == c >= 48 /\ c <= 57

\* The first index >= i that holds no JSON whitespace (Len(s) + 1 at the end).
SkipWs(s, i) ==
  IF i > Len(s) THEN i
  ELSE CHOOSE j \in i..(Len(s) + 1) :
         /\ j > Len(s) \/ ~IsJsonWhitespace(s[j])
         /\ \A m \in i..(j - 1) : IsJsonWhitespace(s[m])

\* The first index >= i that holds no digit.
DigitsEnd(s, i) ==
  IF i > Len(s) THEN i
  ELSE CHOOSE j \in i..(Len(s) + 1) :
         /\ j > Len(s) \/ ~IsDigit(s[j])
         /\ \A m \in i..(j - 1) : IsDigit(s[m])

RECURSIVE DecValue(_, _, _)
\* The value of the digits s[from..to].
DecValue(s, from, to) ==
  IF to < from THEN 0 ELSE DecValue(s, from, to - 1) * 10 + (s[to] - 48)

HexVal(c) ==
  IF c >= 48 /\ c <= 57 THEN c - 48
  ELSE IF c >= 97 /\ c <= 102 THEN c - 87
  ELSE IF c >= 65 /\ c <= 70 THEN c - 55
  ELSE -1

\* A JSON number starting at i: -? int frac? exp?  (j0 follows the sign,
\* j1 the integer digits, j2 the fraction, j3 the exponent.)
ParseNumber(s, i) ==
  LET at(j) == IF j <= Len(s) THEN s[j] ELSE -1
      result(j0, j1, j3) ==
        IF j3 = j1 /\ j1 - j0 <= 9
          THEN ParseOk(JNum((IF j0 > i THEN -1 ELSE 1) * DecValue(s, j0, j1 - 1)), j3)
          ELSE ParseOk(JReal(SubSeq(s, i, j3 - 1)), j3)
      exponent(j0, j1, j2, e0, j3) ==
        IF at(j2) \in {101, 69} /\ j3 = e0 THEN ParseFail ELSE result(j0, j1, j3)
      afterFraction(j0, j1, j2, e0) ==
        exponent(j0, j1, j2, e0, IF at(j2) \in {101, 69} THEN DigitsEnd(s, e0) ELSE j2)
      fraction(j0, j1, f0, j2) ==
        IF at(j1) = 46 /\ j2 = f0 THEN ParseFail
        ELSE afterFraction(j0, j1, j2,
               IF at(j2) \in {101, 69}
                 THEN (IF at(j2 + 1) \in {43, 45} THEN j2 + 2 ELSE j2 + 1)
                 ELSE j2)
      afterInteger(j0, j1, f0) ==
        fraction(j0, j1, f0, IF at(j1) = 46 THEN DigitsEnd(s, f0) ELSE j1)
      integer(j0, j1) ==
        IF j1 = j0 THEN ParseFail
        ELSE afterInteger(j0, j1, IF at(j1) = 46 THEN j1 + 1 ELSE j1)
      afterSign(j0) == integer(j0, IF at(j0) = 48 THEN j0 + 1 ELSE DigitsEnd(s, j0))
  IN afterSign(IF at(i) = 45 THEN i + 1 ELSE i)

RECURSIVE BackslashRun(_, _, _)
\* The number of successive backslashes that end at index k, from index
\* `from` on.
BackslashRun(s, k, from) ==
  IF k < from \/ s[k] # 92 THEN 0 ELSE 1 + BackslashRun(s, k - 1, from)

\* The characters of a JSON string whose opening quote precedes index i;
\* .i is the index after the closing quote.  The closing quote is the first
\* quote that no backslash escapes.  Within the string a backslash after an
\* even run of backslashes starts an escape: \" \\ \/ \b \f \n \r \t or
\* \uXXXX; every other character must be U+0020 or above.
ParseStringBody(s, i) ==
  LET starts(k) == s[k] = 92 /\ BackslashRun(s, k - 1, i) % 2 = 0
      escaped(k) == k > i /\ starts(k - 1)
      hexOf(k) == \E m \in 1..4 : k - m > i /\ s[k - m] = 117 /\ escaped(k - m)
      valid(k, q) ==
        IF starts(k) THEN
          \/ s[k + 1] \in {34, 92, 47, 98, 102, 110, 114, 116}
          \/ /\ s[k + 1] = 117
             /\ k + 5 < q
             /\ \A j \in (k + 2)..(k + 5) : HexVal(s[j]) # -1
        ELSE escaped(k) \/ hexOf(k) \/ s[k] >= 32
      unescape(e) ==
        CASE e = 98 -> 8 [] e = 102 -> 12 [] e = 110 -> 10
          [] e = 114 -> 13 [] e = 116 -> 9 [] OTHER -> e
      piece(k) ==
        IF starts(k) THEN
          IF s[k + 1] = 117
            THEN << HexVal(s[k + 2]) * 4096 + HexVal(s[k + 3]) * 256
                    + HexVal(s[k + 4]) * 16 + HexVal(s[k + 5]) >>
            ELSE << unescape(s[k + 1]) >>
        ELSE IF escaped(k) \/ hexOf(k) THEN <<>>
        ELSE << s[k] >>
      body(q) ==
        IF \A k \in i..(q - 1) : valid(k, q)
          THEN ParseOk(Flatten([k \in 1..(q - i) |-> piece(i + k - 1)]), q + 1)
          ELSE ParseFail
      first(closing) ==
        IF closing = {} THEN ParseFail
        ELSE body(CHOOSE x \in closing : \A y \in closing : x <= y)
  IN first({q \in i..Len(s) : s[q] = 34 /\ BackslashRun(s, q - 1, i) % 2 = 0})

\* Is s[i..] the literal lit?
HasLiteral(s, i, lit) ==
  /\ i + Len(lit) - 1 <= Len(s)
  /\ \A j \in 1..Len(lit) : s[i + j - 1] = lit[j]

\* The members o with key k set to v: a repeated key keeps its place and
\* takes the later value.
SetProp(o, k, v) ==
  IF \E j \in 1..Len(o) : o[j].k = k
    THEN [j \in 1..Len(o) |-> IF o[j].k = k THEN [k |-> k, v |-> v] ELSE o[j]]
    ELSE Append(o, [k |-> k, v |-> v])

RECURSIVE ParseValue(_, _)
RECURSIVE ParseElements(_, _, _)
RECURSIVE ParseMembers(_, _, _)

\* A JSON value starting at or after i0 (leading whitespace skipped).
ParseValue(s, i0) ==
  LET string(r) == IF r.ok THEN ParseOk(JStr(r.v), r.i) ELSE ParseFail
      object(j) ==
        IF j <= Len(s) /\ s[j] = 125 THEN ParseOk(JObj(<<>>), j + 1)
        ELSE ParseMembers(s, j, <<>>)
      array(j) ==
        IF j <= Len(s) /\ s[j] = 93 THEN ParseOk(JArr(<<>>), j + 1)
        ELSE ParseElements(s, j, <<>>)
      value(i) ==
        IF i > Len(s) THEN ParseFail
        ELSE IF s[i] = 123 THEN object(SkipWs(s, i + 1))
        ELSE IF s[i] = 91 THEN array(SkipWs(s, i + 1))
        ELSE IF s[i] = 34 THEN string(ParseStringBody(s, i + 1))
        ELSE IF s[i] = 45 \/ IsDigit(s[i]) THEN ParseNumber(s, i)
        ELSE IF HasLiteral(s, i, << 116, 114, 117, 101 >>) THEN ParseOk(JBool(TRUE), i + 4)
        ELSE IF HasLiteral(s, i, << 102, 97, 108, 115, 101 >>) THEN ParseOk(JBool(FALSE), i + 5)
        ELSE IF HasLiteral(s, i, << 110, 117, 108, 108 >>) THEN ParseOk(JNull, i + 4)
        ELSE ParseFail
  IN value(SkipWs(s, i0))

\* The elements of an array from i on, after those in acc; .i is the index
\* after the closing bracket.
ParseElements(s, i, acc) ==
  LET next(r, j) ==
        IF j > Len(s) THEN ParseFail
        ELSE IF s[j] = 44 THEN ParseElements(s, j + 1, Append(acc, r.v))
        ELSE IF s[j] = 93 THEN ParseOk(JArr(Append(acc, r.v)), j + 1)
        ELSE ParseFail
      element(r) == IF ~r.ok THEN ParseFail ELSE next(r, SkipWs(s, r.i))
  IN element(ParseValue(s, i))

\* The members of an object from i0 on, after those in acc; .i is the index
\* after the closing brace.
ParseMembers(s, i0, acc) ==
  LET next(k, r, j) ==
        IF j > Len(s) THEN ParseFail
        ELSE IF s[j] = 44 THEN ParseMembers(s, j + 1, SetProp(acc, k.v, r.v))
        ELSE IF s[j] = 125 THEN ParseOk(JObj(SetProp(acc, k.v, r.v)), j + 1)
        ELSE ParseFail
      value(k, r) == IF ~r.ok THEN ParseFail ELSE next(k, r, SkipWs(s, r.i))
      colon(k, c) ==
        IF c > Len(s) \/ s[c] # 58 THEN ParseFail ELSE value(k, ParseValue(s, c + 1))
      key(k) == IF ~k.ok THEN ParseFail ELSE colon(k, SkipWs(s, k.i))
      member(i) ==
        IF i > Len(s) \/ s[i] # 34 THEN ParseFail ELSE key(ParseStringBody(s, i + 1))
  IN member(SkipWs(s, i0))

\* JSON.parse(text): [ok |-> FALSE] is the SyntaxError it throws.
JsonParse(text) ==
  LET whole(r) ==
        IF r.ok /\ SkipWs(text, r.i) > Len(text) THEN [ok |-> TRUE, v |-> r.v]
        ELSE [ok |-> FALSE, v |-> JUndefined]
  IN whole(ParseValue(text, 1))

\* ToString(v), as atob applies it to its argument.
RECURSIVE ToStringJS(_)
ToStringJS(v) ==
  CASE v.t = "undefined" -> << 117, 110, 100, 101, 102, 105, 110, 101, 100 >>
    [] v.t = "null" -> << 110, 117, 108, 108 >>
    [] v.t = "bool" -> IF v.b THEN << 116, 114, 117, 101 >>
                              ELSE << 102, 97, 108, 115, 101 >>
    [] v.t = "num" -> NumToString(v.n)
    [] v.t = "real" -> v.lex
    [] v.t = "str" -> v.s
    [] v.t = "arr" ->
         JoinWith([j \in 1..Len(v.a) |->
                     IF v.a[j].t \in {"undefined", "null"} THEN <<>>
                     ELSE ToStringJS(v.a[j])], 44)
    [] v.t = "obj" ->   \* "[object Object]"
         << 91, 111, 98, 106, 101, 99, 116, 32, 79, 98, 106, 101, 99, 116, 93 >>

\* ------------------------------------------------------------------------
\* The codec (src/src/App.tsx 1137-1445)
\* ------------------------------------------------------------------------

\* "STEG"
MAGIC_BYTES == << 83, 84, 69, 71 >>

\* Property names of the payload document.
K_files       == << 102, 105, 108, 101, 115 >>
K_hasPassword == << 104, 97, 115, 80, 97, 115, 115, 119, 111, 114, 100 >>
K_name        == << 110, 97, 109, 101 >>
K_type        == << 116, 121, 112, 101 >>
K_size        == << 115, 105, 122, 101 >>
K_dataBase64  == << 100, 97, 116, 97, 66, 97, 115, 101, 54, 52 >>

\* 'bin' and 'application/octet-stream'
S_bin == << 98, 105, 110 >>
S_octetStream ==
  << 97, 112, 112, 108, 105, 99, 97, 116, 105, 111, 110, 47, 111, 99, 116,
     101, 116, 45, 115, 116, 114, 101, 97, 109 >>

\* xorEncrypt that uses each key byte once and leaves the rest of the data.
XorKeyNotRepeated(data, password) ==
  IF ~Truthy(password) THEN data
  ELSE
    LET passBytes == TextEncode(password.s)
    IN [i \in 1..Len(data) |->
          IF i <= Len(passBytes) THEN BitXor(data[i], passBytes[i]) ELSE data[i]]

\* xorEncrypt that adds the key byte (mod 256) where it should XOR.
XorAddsKey(data, password) ==
  IF ~Truthy(password) THEN data
  ELSE
    LET passBytes == TextEncode(password.s)
    IN [i \in 1..Len(data) |->
          (data[i] + passBytes[((i - 1) % Len(passBytes)) + 1]) % 256]

\* xorEncrypt(data, password): password is a string or undefined.
xorEncrypt(data, password) ==
  IF ~Truthy(password) THEN data
  ELSE
    LET passBytes == TextEncode(password.s)
    IN [i \in 1..Len(data) |->
          BitXor(data[i], passBytes[((i - 1) % Len(passBytes)) + 1])]

chunkSize == 8192

RECURSIVE BinaryFrom(_, _)
\* The binary string arrayBufferToBase64 builds chunk by chunk, from the
\* 1-based index i on: String.fromCharCode maps each byte to that code unit.
BinaryFrom(bytes, i) ==
  IF i > Len(bytes) THEN <<>>
  ELSE SubSeq(bytes, i, IF i + chunkSize - 1 < Len(bytes) THEN i + chunkSize - 1
                        ELSE Len(bytes))
       \o BinaryFrom(bytes, i + chunkSize)

arrayBufferToBase64(buffer) == Btoa(BinaryFrom(buffer, 1))

\* base64ToArrayBuffer(base64): [ok |-> FALSE] when atob throws.
base64ToArrayBuffer(base64) ==
  LET binary == Atob(base64)
  IN IF binary.ok
       THEN [ok |-> TRUE, bytes |-> [i \in 1..Len(binary.bytes) |-> binary.bytes[i]]]
       ELSE [ok |-> FALSE, bytes |-> <<>>]

\* The four bytes (size >> 24) & 0xff .. size & 0xff of a payload size
\* hi * 65536 + lo  (hi, lo in 0..65535).
SizeField(hi, lo) ==
  << (hi \div 256) % 256, hi % 256, (lo \div 256) % 256, lo % 256 >>

\* b[i] with a 0-based index, as a bitwise operand: an index outside the
\* array reads undefined, which ToInt32 makes 0.
ByteOrZero(b, i) == IF i >= 0 /\ i < Len(b) THEN b[i + 1] ELSE 0

\* (b0 << 24) | (b1 << 16) | (b2 << 8) | b3: a signed 32-bit integer.
ReadInt32(b0, b1, b2, b3) ==
  (IF b0 >= 128 THEN b0 - 256 ELSE b0) * 16777216 + b1 * 65536 + b2 * 256 + b3

\* payloadSize > length - 8 for a length lengthHi * 65536 + lengthLo and a
\* payloadSize in 1 .. 2^31 - 1 (the halves keep the arithmetic within 32
\* bits).
ExceedsBuffer(payloadSize, lengthHi, lengthLo) ==
  IF lengthHi < 32768
    THEN payloadSize > lengthHi * 65536 + lengthLo - 8
  ELSE IF lengthHi = 32768
    THEN (payloadSize - 2147483647) - 1 > lengthLo - 8
  ELSE FALSE

\* The last min(8, length) bytes of a buffer.
TrailerOf(buffer) ==
  IF Len(buffer) <= 8 THEN buffer ELSE SubSeq(buffer, Len(buffer) - 7, Len(buffer))

\* A payload region taken from the start of the buffer, where the cover is.
PayloadRegionFromStart(buffer, payloadSize) ==
  SubSeq(buffer, 1, payloadSize)

\* The payload region of a framing-valid buffer.
PayloadRegion(buffer, payloadSize) ==
  LET payloadStart == Len(buffer) - 8 - payloadSize
  IN SubSeq(buffer, payloadStart + 1, payloadStart + payloadSize)

\* The text after the last '.' of a file name (the whole name if it has none).
LastSegment(name) ==
  LET dots == {i \in 1..Len(name) : name[i] = 46}
  IN IF dots = {} THEN name
     ELSE SubSeq(name, (CHOOSE i \in dots : \A j \in dots : j <= i) + 1, Len(name))

\* PayloadObj whose hasPassword tells whether a password string was given,
\* be it empty.
PayloadObjFlagsAnyString(filesData, password) ==
  JObj(<< [k |-> K_files, v |-> JArr(filesData)],
          [k |-> K_hasPassword, v |-> JBool(password.t = "str")] >>)

\* The payload document {files: [...], hasPassword} of a list of entries
\* [name, type, size, dataBase64] whose fields are JavaScript values.
PayloadObj(filesData, password) ==
  JObj(<< [k |-> K_files, v |-> JArr(filesData)],
          [k |-> K_hasPassword, v |-> JBool(Truthy(password))] >>)

FileEntry(name, type, size, dataBase64) ==
  JObj(<< [k |-> K_name, v |-> name], [k |-> K_type, v |-> type],
          [k |-> K_size, v |-> size], [k |-> K_dataBase64, v |-> dataBase64] >>)

\* JSON.stringify, TextEncoder and the optional mask: the payload bytes.
PayloadBytes(payloadObj, password) ==
  LET encoded == TextEncode(Stringify(payloadObj))
  IN IF Truthy(password) THEN xorEncrypt(encoded, password) ELSE encoded

\* Combine with the four size bytes in little-endian order.
CombineLittleEndian(coverBytes, payloadBytes) ==
  LET payloadSize == Len(payloadBytes)
      f == SizeField(payloadSize \div 65536, payloadSize % 65536)
  IN coverBytes \o payloadBytes \o << f[4], f[3], f[2], f[1] >> \o MAGIC_BYTES

\* [cover][payload][4 bytes size][4 bytes magic]
Combine(coverBytes, payloadBytes) ==
  LET payloadSize == Len(payloadBytes)
  IN coverBytes \o payloadBytes
     \o SizeField(payloadSize \div 65536, payloadSize % 65536) \o MAGIC_BYTES

\* embedFiles(coverFile, secretFiles, password): coverFile is
\* [name, type, data], each secret file [name, type, size, data].
embedFiles(coverFile, secretFiles, password) ==
  LET coverBuffer == coverFile.data
      filesData == [j \in 1..Len(secretFiles) |->
                      FileEntry(JStr(secretFiles[j].name), JStr(secretFiles[j].type),
                                JNum(secretFiles[j].size),
                                JStr(arrayBufferToBase64(secretFiles[j].data)))]
      payloadBytes == PayloadBytes(PayloadObj(filesData, password), password)
      ext == LastSegment(coverFile.name)
  IN [blob |-> [bytes |-> Combine(coverBuffer, payloadBytes),
                type |-> IF coverFile.type # <<>> THEN coverFile.type
                         ELSE S_octetStream],
      extension |-> IF ext # <<>> THEN ext ELSE S_bin]

\* checkFraming that compares only the first byte of the tag.
FramingChecksFirstTagByte(lengthHi, lengthLo, tail) ==
  IF lengthHi = 0 /\ lengthLo < 8 THEN "short"
  ELSE IF ~(tail[5] = MAGIC_BYTES[1]) THEN "magic"
  ELSE
    LET payloadSize == ReadInt32(tail[1], tail[2], tail[3], tail[4])
    IN IF payloadSize <= 0 \/ ExceedsBuffer(payloadSize, lengthHi, lengthLo)
         THEN "size" ELSE "none"

\* Lines 1286-1310: "none" when the buffer is framed as a container, else
\* why checkForHiddenData answers found: false.  The buffer is given by its
\* length (two halves) and its last min(8, length) bytes.
checkFraming(lengthHi, lengthLo, tail) ==
  IF lengthHi = 0 /\ lengthLo < 8 THEN "short"
  ELSE IF ~(tail[5] = MAGIC_BYTES[1] /\ tail[6] = MAGIC_BYTES[2]
            /\ tail[7] = MAGIC_BYTES[3] /\ tail[8] = MAGIC_BYTES[4]) THEN "magic"
  ELSE
    LET payloadSize == ReadInt32(tail[1], tail[2], tail[3], tail[4])
    IN IF payloadSize <= 0 \/ ExceedsBuffer(payloadSize, lengthHi, lengthLo)
         THEN "size" ELSE "none"

\* checkForHiddenData whose catch block answers hasPassword false.
CheckCatchReportsNoPassword(buffer) ==
  LET answer(obj) ==
        IF ~obj.ok \/ obj.v.t = "null"
          THEN [found |-> TRUE, hasPassword |-> FALSE]
          ELSE [found |-> TRUE, hasPassword |-> Truthy(GetProp(obj.v, K_hasPassword))]
      payload(tail) ==
        PayloadRegion(buffer, ReadInt32(tail[1], tail[2], tail[3], tail[4]))
      framed(tail) ==
        IF checkFraming(Len(buffer) \div 65536, Len(buffer) % 65536, tail) # "none"
          THEN [found |-> FALSE, hasPassword |-> FALSE]
          ELSE answer(JsonParse(TextDecode(payload(tail))))
  IN framed(TrailerOf(buffer))

\* checkForHiddenData(buffer)
checkForHiddenData(buffer) ==
  LET answer(obj) ==
        IF ~obj.ok \/ obj.v.t = "null"      \* SyntaxError, or TypeError on null
          THEN [found |-> TRUE, hasPassword |-> TRUE]
          ELSE [found |-> TRUE, hasPassword |-> Truthy(GetProp(obj.v, K_hasPassword))]
      payload(tail) ==
        PayloadRegion(buffer, ReadInt32(tail[1], tail[2], tail[3], tail[4]))
      framed(tail) ==
        IF checkFraming(Len(buffer) \div 65536, Len(buffer) % 65536, tail) # "none"
          THEN [found |-> FALSE, hasPassword |-> FALSE]
          ELSE answer(JsonParse(TextDecode(payload(tail))))
  IN framed(TrailerOf(buffer))

\* The errors extractFiles ends with: its four framing / decode messages,
\* and the two exceptions it does not catch.
E_tooSmall == "File terlalu kecil untuk berisi data tersembunyi."
E_noMagic  == "Tidak ditemukan data tersembunyi dalam file ini."
E_badSize  == "Data tersembunyi rusak atau ukuran tidak valid."
E_decode   == "Gagal mendekode data. Password mungkin salah."
E_parse    == "Gagal membaca data tersembunyi. Password mungkin salah atau file rusak."
E_format   == "Format data tidak valid. Password mungkin salah."
E_typeError == "TypeError"
E_invalidCharacter == "InvalidCharacterError"

FramingErrors == {E_tooSmall, E_noMagic, E_badSize}
DecodeErrors == {E_decode, E_parse, E_format}

\* extractFraming that lets a declared payload size of 0 pass.
ExtractAcceptsZeroSize(lengthHi, lengthLo, tail) ==
  IF lengthHi = 0 /\ lengthLo < 8 THEN E_tooSmall
  ELSE IF ~(tail[5] = MAGIC_BYTES[1] /\ tail[6] = MAGIC_BYTES[2]
            /\ tail[7] = MAGIC_BYTES[3] /\ tail[8] = MAGIC_BYTES[4]) THEN E_noMagic
  ELSE
    LET payloadSize == ReadInt32(tail[1], tail[2], tail[3], tail[4])
    IN IF payloadSize < 0 \/ ExceedsBuffer(payloadSize, lengthHi, lengthLo)
         THEN E_badSize ELSE "none"

\* Lines 1327-1351: "none", or the framing error extractFiles throws.
extractFraming(lengthHi, lengthLo, tail) ==
  IF lengthHi = 0 /\ lengthLo < 8 THEN E_tooSmall
  ELSE IF ~(tail[5] = MAGIC_BYTES[1] /\ tail[6] = MAGIC_BYTES[2]
            /\ tail[7] = MAGIC_BYTES[3] /\ tail[8] = MAGIC_BYTES[4]) THEN E_noMagic
  ELSE
    LET payloadSize == ReadInt32(tail[1], tail[2], tail[3], tail[4])
    IN IF payloadSize <= 0 \/ ExceedsBuffer(payloadSize, lengthHi, lengthLo)
         THEN E_badSize ELSE "none"

Thrown(e) == [ok |-> FALSE, error |-> e, files |-> <<>>]

\* MapFiles that gives the files back in reverse order.
MapReversed(entries) ==
  IF \E j \in 1..Len(entries) : entries[j].t = "null" THEN Thrown(E_typeError)
  ELSE
    LET data == [j \in 1..Len(entries) |->
                   base64ToArrayBuffer(ToStringJS(GetProp(entries[j], K_dataBase64)))]
        n == Len(entries)
    IN IF \E j \in 1..Len(entries) : ~data[j].ok THEN Thrown(E_invalidCharacter)
       ELSE [ok |-> TRUE, error |-> "none",
             files |-> [j \in 1..n |->
                          [name |-> GetProp(entries[n + 1 - j], K_name),
                           size |-> GetProp(entries[n + 1 - j], K_size),
                           type |-> GetProp(entries[n + 1 - j], K_type),
                           data |-> data[n + 1 - j].bytes]]]

\* MapFiles that takes an empty `files` array for a format error.
MapFilesRejectsEmpty(entries) ==
  IF entries = <<>> THEN Thrown(E_format)
  ELSE IF \E j \in 1..Len(entries) : entries[j].t = "null" THEN Thrown(E_typeError)
  ELSE
    LET data == [j \in 1..Len(entries) |->
                   base64ToArrayBuffer(ToStringJS(GetProp(entries[j], K_dataBase64)))]
    IN IF \E j \in 1..Len(entries) : ~data[j].ok THEN Thrown(E_invalidCharacter)
       ELSE [ok |-> TRUE, error |-> "none",
             files |-> [j \in 1..Len(entries) |->
                          [name |-> GetProp(entries[j], K_name),
                           size |-> GetProp(entries[j], K_size),
                           type |-> GetProp(entries[j], K_type),
                           data |-> data[j].bytes]]]

\* payloadObj.files.map(...) that takes each file's size from the length of
\* its decoded content.
MapFilesMeasuresSize(entries) ==
  IF \E j \in 1..Len(entries) : entries[j].t = "null" THEN Thrown(E_typeError)
  ELSE
    LET data == [j \in 1..Len(entries) |->
                   base64ToArrayBuffer(ToStringJS(GetProp(entries[j], K_dataBase64)))]
    IN IF \E j \in 1..Len(entries) : ~data[j].ok THEN Thrown(E_invalidCharacter)
       ELSE [ok |-> TRUE, error |-> "none",
             files |-> [j \in 1..Len(entries) |->
                          [name |-> GetProp(entries[j], K_name),
                           size |-> JNum(Len(data[j].bytes)),
                           type |-> GetProp(entries[j], K_type),
                           data |-> data[j].bytes]]]

\* Lines 1380-1386: payloadObj.files.map(...).  An entry that is null makes
\* f.name throw a TypeError; a dataBase64 atob rejects makes it throw.
MapFiles(entries) ==
  IF \E j \in 1..Len(entries) : entries[j].t = "null" THEN Thrown(E_typeError)
  ELSE
    LET data == [j \in 1..Len(entries) |->
                   base64ToArrayBuffer(ToStringJS(GetProp(entries[j], K_dataBase64)))]
    IN IF \E j \in 1..Len(entries) : ~data[j].ok THEN Thrown(E_invalidCharacter)
       ELSE [ok |-> TRUE, error |-> "none",
             files |-> [j \in 1..Len(entries) |->
                          [name |-> GetProp(entries[j], K_name),
                           size |-> GetProp(entries[j], K_size),
                           type |-> GetProp(entries[j], K_type),
                           data |-> data[j].bytes]]]

\* extractFiles(buffer, password): [ok, error, files]; each file is
\* [name, size, type, data] with name, size and type as parsed.
\* (TextDecoder.decode never throws.)
extractFiles(buffer, password) ==
  LET listed(list) ==
        IF ~Truthy(list) \/ list.t # "arr" THEN Thrown(E_format) ELSE MapFiles(list.a)
      parsed(payloadObj) ==
        IF ~payloadObj.ok THEN Thrown(E_parse)
        ELSE IF payloadObj.v.t = "null" THEN Thrown(E_typeError)
        ELSE listed(GetProp(payloadObj.v, K_files))
      unmasked(sliced) ==
        IF Truthy(password) THEN xorEncrypt(sliced, password) ELSE sliced
      payload(tail) ==
        PayloadRegion(buffer, ReadInt32(tail[1], tail[2], tail[3], tail[4]))
      framed(tail, framing) ==
        IF framing # "none" THEN Thrown(framing)
        ELSE parsed(JsonParse(TextDecode(unmasked(payload(tail)))))
      checked(tail) ==
        framed(tail, extractFraming(Len(buffer) \div 65536, Len(buffer) % 65536, tail))
  IN checked(TrailerOf(buffer))

\* A cover that is all of the old buffer, payload and trailer included.
CoverLengthWholeBuffer(length, payloadSize) == length

\* stegoBuffer.slice(0, coverEnd) for coverEnd = length - 8 - payloadSize:
\* the number of bytes kept.  An end beyond the buffer is clamped to its
\* length, a negative end counts from the end of the buffer.
CoverLength(length, payloadSize) ==
  IF payloadSize <= -8 THEN length
  ELSE IF payloadSize <= length - 8 THEN length - 8 - payloadSize
  ELSE IF payloadSize >= 2 * length - 8 THEN 0
  ELSE 2 * length - 8 - payloadSize

\* reEmbedFiles that takes all but the trailer for the cover, old payload
\* included.
ReEmbedKeepsPayload(stegoBuffer, files, password) ==
  LET coverBytes == SubSeq(stegoBuffer, 1, Len(stegoBuffer) - 8)
      filesData == [j \in 1..Len(files) |->
                      FileEntry(files[j].name, files[j].type, files[j].size,
                                JStr(arrayBufferToBase64(files[j].data)))]
      payloadBytes == PayloadBytes(PayloadObj(filesData, password), password)
  IN [bytes |-> Combine(coverBytes, payloadBytes), type |-> S_octetStream]

\* reEmbedFiles that sets hasPassword from the password but never masks the
\* new payload.
ReEmbedWithoutMask(stegoBuffer, files, password) ==
  LET uint8 == stegoBuffer
      sizeOffset == Len(uint8) - 8
      payloadSize == ReadInt32(ByteOrZero(uint8, sizeOffset),
                               ByteOrZero(uint8, sizeOffset + 1),
                               ByteOrZero(uint8, sizeOffset + 2),
                               ByteOrZero(uint8, sizeOffset + 3))
      coverBytes == SubSeq(stegoBuffer, 1, CoverLength(Len(uint8), payloadSize))
      filesData == [j \in 1..Len(files) |->
                      FileEntry(files[j].name, files[j].type, files[j].size,
                                JStr(arrayBufferToBase64(files[j].data)))]
      payloadBytes == PayloadBytes(PayloadObj(filesData, password), JUndefined)
  IN [bytes |-> Combine(coverBytes, payloadBytes), type |-> S_octetStream]

\* reEmbedFiles that writes each file's id where its name belongs.
ReEmbedNamesById(stegoBuffer, files, password) ==
  LET uint8 == stegoBuffer
      sizeOffset == Len(uint8) - 8
      payloadSize == ReadInt32(ByteOrZero(uint8, sizeOffset),
                               ByteOrZero(uint8, sizeOffset + 1),
                               ByteOrZero(uint8, sizeOffset + 2),
                               ByteOrZero(uint8, sizeOffset + 3))
      coverBytes == SubSeq(stegoBuffer, 1, CoverLength(Len(uint8), payloadSize))
      filesData == [j \in 1..Len(files) |->
                      FileEntry(files[j].id, files[j].type, files[j].size,
                                JStr(arrayBufferToBase64(files[j].data)))]
      payloadBytes == PayloadBytes(PayloadObj(filesData, password), password)
  IN [bytes |-> Combine(coverBytes, payloadBytes), type |-> S_octetStream]

\* reEmbedFiles(stegoBuffer, files, password): the Blob it resolves to.
\* files are HiddenFile records [name, size, type, data].
reEmbedFiles(stegoBuffer, files, password) ==
  LET uint8 == stegoBuffer
      sizeOffset == Len(uint8) - 8
      payloadSize == ReadInt32(ByteOrZero(uint8, sizeOffset),
                               ByteOrZero(uint8, sizeOffset + 1),
                               ByteOrZero(uint8, sizeOffset + 2),
                               ByteOrZero(uint8, sizeOffset + 3))
      coverBytes == SubSeq(stegoBuffer, 1, CoverLength(Len(uint8), payloadSize))
      filesData == [j \in 1..Len(files) |->
                      FileEntry(files[j].name, files[j].type, files[j].size,
                                JStr(arrayBufferToBase64(files[j].data)))]
      payloadBytes == PayloadBytes(PayloadObj(filesData, password), password)
  IN [bytes |-> Combine(coverBytes, payloadBytes), type |-> S_octetStream]

\* ------------------------------------------------------------------------
\* Inputs of the checked runs
\* ------------------------------------------------------------------------

\* The longest secret-file list packed.
MaxFiles == 2

Zeros(n) == [i \in 1..n |-> 0]

\* Cover files [name, type, data]: an empty image, the 100 zero bytes of the
\* spec's scenario under a name without extension, and a cover that is
\* itself a container (payload "{}").
Covers ==
  { [name |-> << 99, 46, 112, 110, 103 >>,                      \* "c.png"
     type |-> << 105, 109, 97, 103, 101, 47, 112, 110, 103 >>,  \* "image/png"
     data |-> <<>>],
    [name |-> << 82, 69, 65, 68, 77, 69 >>,                     \* "README"
     type |-> <<>>,
     data |-> Zeros(100)],
    [name |-> << 120, 46, 116, 97, 114, 46, 103, 122 >>,        \* "x.tar.gz"
     type |-> <<>>,
     data |-> << 123, 125, 0, 0, 0, 2, 83, 84, 69, 71 >>] }

\* Secret files [name, type, size, data]; File.size is the byte length.
SecretFile(name, type, data) ==
  [name |-> name, type |-> type, size |-> Len(data), data |-> data]

Catalog ==
  << SecretFile(<< 97, 46, 116, 120, 116 >>,                    \* "a.txt"
                << 116, 101, 120, 116, 47, 112, 108, 97, 105, 110 >>,
                << 104, 101, 108, 108, 111 >>),                 \* "hello"
     SecretFile(<< 113, 34, 92 >>, <<>>, <<>>),                 \* q"\  (empty)
     SecretFile(<< 10, 1, 233 >>,                               \* LF, U+0001, e-acute
                << 105, 109, 97, 103, 101, 47, 112, 110, 103 >>,
                << 0 >>),
     SecretFile(<< 55296, 55357, 56832 >>, <<>>,                \* lone D800, U+1F600
                << 251, 255, 191 >>) >>                         \* base64 "+/+/"

\* The file lists packed: the runs of at most MaxFiles successive catalog
\* entries, and the empty list.
FileLists ==
  { SubSeq(Catalog, q[1], q[1] + q[2] - 1) :
      q \in { r \in (1..Len(Catalog)) \X (0..MaxFiles) :
                r[1] + r[2] - 1 <= Len(Catalog) } }

\* A File as the HiddenFile extractFiles is to give back.
AsHidden(f) ==
  [name |-> JStr(f.name), size |-> JNum(f.size), type |-> JStr(f.type),
   data |-> f.data]

HiddenList(list) == [j \in 1..Len(list) |-> AsHidden(list[j])]

\* A password of 100 printable characters: masked with it, the payload of
\* the list << Catalog[1] >> reads as one JSON string.
LongPassword == JStr(<< 89, 65, 65, 65, 65, 65, 65, 65, 65, 97, 65, 65, 65, 65, 65, 65, 65, 65, 65, 65, 65, 65, 65, 65, 65, 65, 65, 65, 65, 65, 65, 65, 65, 65, 65, 65, 65, 65, 65, 65, 65, 65, 65, 65, 65, 65, 65, 65, 65, 65, 65, 65, 65, 65, 65, 65, 65, 65, 65, 65, 97, 65, 65, 65, 65, 65, 65, 65, 65, 65, 97, 97, 65, 65, 97, 65, 65, 65, 65, 97, 65, 65, 65, 65, 65, 97, 65, 65, 65, 65, 65, 65, 65, 65, 65, 65, 65, 65, 65, 95 >>)

\* Passwords: undefined, "", "k", "kk" and LongPassword.
Passwords ==
  { JUndefined, JStr(<<>>), JStr(<< 107 >>), JStr(<< 107, 107 >>), LongPassword }

\* Buffers a user may load that embedFiles did not write: bodies followed by
\* a size field and four last bytes, and the short ends of such buffers.
LoadBodies ==
  { <<>>, << 110, 117, 108, 108 >>,                                    \* "null"
    << 123, 34, 102, 105, 108, 101, 115, 34, 58, 91, 93, 125 >> }      \* {"files":[]}

LoadSizeFields ==
  { << 0, 0, 0, 0 >>, << 0, 0, 0, 4 >>, << 0, 0, 0, 12 >>, << 0, 0, 0, 13 >>,
    << 127, 255, 255, 255 >>, << 128, 0, 0, 0 >>, << 255, 255, 255, 255 >> }

LoadEndings ==
  { MAGIC_BYTES, << 115, 84, 69, 71 >>, << 83, 85, 69, 71 >>, << 83, 84, 0, 71 >>,
    << 83, 84, 69, 70 >> }

\* Payloads of well-framed buffers that embedFiles would not write: values
\* without a `files` array, text that is no JSON, bytes that are no UTF-8,
\* and a file whose declared size is not the length of its content.
LoadDocuments ==
  { << 123, 125 >>,                                                    \* {}
    << 123, 34, 102, 105, 108, 101, 115, 34, 58, 49, 125 >>,           \* {"files":1}
    << 49 >>,                                                          \* 1
    << 34, 97, 34 >>,                                                  \* "a"
    << 91, 93 >>,                                                      \* []
    << 120 >>,                                                         \* x
    << 255 >>,                                                         \* FF
    << 123, 34, 104, 97, 115, 80, 97, 115, 115, 119, 111, 114, 100, 34,
       58, 49, 125 >>,                                                 \* {"hasPassword":1}
    << 123, 34, 102, 105, 108, 101, 115, 34, 58, 91, 93, 44, 34, 120, 34,
       58, 34, 255, 34, 125 >>,                                        \* {"files":[],"x":"FF"}
    \* {"files":[{"name":"a","type":"","size":7,"dataBase64":"aA=="}]}:
    \* one byte of content under a declared size of 7
    << 123, 34, 102, 105, 108, 101, 115, 34, 58, 91, 123, 34, 110,
       97, 109, 101, 34, 58, 34, 97, 34, 44, 34, 116, 121, 112,
       101, 34, 58, 34, 34, 44, 34, 115, 105, 122, 101, 34, 58,
       55, 44, 34, 100, 97, 116, 97, 66, 97, 115, 101, 54, 52, 34,
       58, 34, 97, 65, 61, 61, 34, 125, 93, 125 >> }

LoadBuffers ==
  { b \o f \o e : b \in LoadBodies, f \in LoadSizeFields, e \in LoadEndings }
  \cup { SubSeq(MAGIC_BYTES, 1, n) : n \in 0..4 }
  \cup { SubSeq(<< 0, 0, 1 >> \o MAGIC_BYTES, k, 7) : k \in 1..3 }
  \cup { d \o SizeField(0, Len(d)) \o MAGIC_BYTES : d \in LoadDocuments }


\* The longest byte sequence masked.
MaxData == 3

\* Byte sequences handed to xorEncrypt.
MaskInputs == UNION { [1..n -> {0, 90, 255}] : n \in 0..MaxData }

\* Keys handed to xorEncrypt: undefined, "", "k", "kk", e-acute followed by
\* "x", a lone surrogate D800, "abcd" and the euro sign.
MaskKeys ==
  { JUndefined, JStr(<<>>), JStr(<< 107 >>), JStr(<< 107, 107 >>),
    JStr(<< 233, 120 >>), JStr(<< 55296 >>), JStr(<< 97, 98, 99, 100 >>),
    JStr(<< 8364 >>) }

\* Payload sizes (hi, lo) from 1 to 2^32 - 1 and cover lengths a trailer is
\* written for.
TrailerSizes ==
  ({0, 1, 32767, 32768, 65535} \X {0, 1, 256, 65535}) \ { << 0, 0 >> }

TrailerCoverLengths == {0, 100}

\* Lengths (hi, lo) and size fields of loaded buffers that end in the tag.
TrailerLengths ==
  { << 0, 8 >>, << 0, 9 >>, << 0, 20 >>, << 1, 0 >>, << 32768, 7 >>,
    << 32768, 8 >>, << 32768, 9 >>, << 65535, 65535 >> }

TrailerSizeFields ==
  { << 0, 0, 0, 0 >>, << 0, 0, 0, 1 >>, << 0, 0, 0, 12 >>, << 0, 0, 0, 13 >>,
    << 0, 0, 255, 248 >>, << 127, 255, 255, 255 >>, << 128, 0, 0, 0 >>,
    << 128, 0, 0, 1 >>, << 255, 255, 255, 255 >> }

\* Lines 1258-1275 by lengths alone: the length of `combined` and its last
\* eight bytes, for a cover of coverLength bytes and a payload of
\* sizeHi * 65536 + sizeLo bytes.
TrailerWritten(coverLength, sizeHi, sizeLo) ==
  LET low == coverLength + sizeLo + 8
  IN [lengthHi |-> sizeHi + (low \div 65536), lengthLo |-> low % 65536,
      tail |-> SizeField(sizeHi, sizeLo) \o MAGIC_BYTES]

\* The longest file list the App component holds (secretFiles, decryptedFiles).
MaxUiFiles == 1

\* What the user picks in the file dialogs: a cover, a secret file, a file
\* added to the unpacked list, and two files for the unpack tab, a container
\* without password and a text file. The password fields are left empty;
\* the one comment typed is "c".
UiCovers == { c \in Covers : Len(c.data) = 0 }
UiSecretFiles == { Catalog[1] }
UiAddedFiles == { Catalog[3] }

\* The most handleStegoSelect calls waiting for their file at once.
MaxReads == 2

\* The most handleSecretFilesSelect calls waiting for their previews at
\* once, and the longest secretPreviews list.
MaxPreviewBuilds == 2
MaxPreviews == 2

UiComments == { << 99 >> }

UiCover == CHOOSE c \in UiCovers : TRUE

UiStegoFiles ==
  { [name |-> << 115, 46, 112, 110, 103 >>,                         \* "s.png"
     data |-> embedFiles(UiCover, << Catalog[1] >>, JUndefined).blob.bytes],
    [name |-> << 110, 111, 116, 101 >>,                             \* "note"
     data |-> << 104, 101, 108, 108, 111, 32, 119, 111, 114, 108, 100 >>] }

\* What generateId() may return (line 1147-1149: a random number and the
\* time, in base 36): "1" or "2".
IdValues == { JStr(<< 49 >>), JStr(<< 50 >>) }

\* The number of calls compared with each other.
MaxCompared == 2

\* The longest sequence of reEmbedFiles calls made on one container.
MaxGenerations == 3

\* The number of codec calls made one after the other on the same arrays.
MaxCalls == 2

\* The arrays the first call finds: a container embedFiles wrote, or a file
\* too short to be one.
HeapBuffers ==
  { embedFiles([name |-> << 99 >>, type |-> <<>>, data |-> << 7, 7 >>],
               << Catalog[3] >>, JUndefined).blob.bytes,
    << 1, 2, 3 >> }

\* ------------------------------------------------------------------------
\* State
\* ------------------------------------------------------------------------

VARIABLES
  coverFile,        \* the cover of the embedFiles call
  embedPassword,    \* the password of the embedFiles call
  files,            \* the file list last packed, as HiddenFile records
  password,         \* the password last packed with
  extension,        \* the extension embedFiles returned
  origin,           \* how stegoBuffer came about
  stegoBuffer,      \* the buffer at hand
  detect,           \* checkForHiddenData(stegoBuffer), once called
  decryptPassword,  \* the password of the extractFiles call
  extracted,        \* extractFiles(stegoBuffer, decryptPassword), once called
  mask,             \* xorEncrypt applied once and twice to a byte sequence
  trailer,          \* a buffer by its length and last eight bytes, and the
                    \* payload size each reader takes from it
  repacked,         \* reEmbedFiles(stegoBuffer, ...) on a loaded buffer, once called
  ui,               \* the state hooks of the App component
  heap,             \* the byte arrays the codec's calls read and allocate
  ids,              \* what calls that differ in the ids alone returned
  generation        \* the number of reEmbedFiles calls stegoBuffer went through

codecVars == << coverFile, embedPassword, files, password, extension, origin,
                stegoBuffer, detect, decryptPassword, extracted >>

vars == << codecVars, mask, trailer, repacked, ui, heap, ids, generation >>

NoCover == [name |-> <<>>, type |-> <<>>, data |-> <<>>]
NotDetected == [run |-> FALSE, found |-> FALSE, hasPassword |-> FALSE]
NotExtracted == [run |-> FALSE, ok |-> FALSE, error |-> "none", files |-> <<>>]
NoMask == [stage |-> "none", data |-> <<>>, key |-> JUndefined, once |-> <<>>,
           twice |-> <<>>]
NotRead == [run |-> FALSE, accepted |-> FALSE, error |-> "none", payloadSize |-> 0]
NoTrailer == [stage |-> "none", sizeHi |-> 0, sizeLo |-> 0, lengthHi |-> 0,
              lengthLo |-> 0, tail |-> <<>>, checked |-> NotRead,
              extract |-> NotRead, reEmbed |-> NotRead]
\* No byte array allocated, no call made.
NoHeap ==
  [store |-> <<>>, calls |-> 0,
   call |-> [fn |-> "none", inputs |-> {}, outputs |-> {}, key |-> JUndefined]]
\* No extractFiles call and no reEmbedFiles call recorded.
NoIds == [extractions |-> <<>>, repacks |-> <<>>]

NotRepacked == [run |-> FALSE, resolved |-> FALSE, error |-> "none",
                files |-> <<>>, password |-> JUndefined, bytes |-> <<>>]

\* The App component after its first render (lines 68-96): nothing selected,
\* no call awaited. embedCall and updateCall are the arguments of the
\* embedFiles and reEmbedFiles calls being awaited, reading the files whose
\* bytes calls of handleStegoSelect are waiting for, adding the files
\* handleAddFileToDecrypted is waiting for, previewing the file lists whose
\* previews calls of handleSecretFilesSelect are waiting for; returned names the handler that last returned at one of its
\* guards.
InitialUi ==
  [coverFile |-> JNull, secretFiles |-> <<>>, secretPreviews |-> <<>>,
   previewing |-> <<>>, embedComments |-> <<>>, embedPassword |-> <<>>,
   embedding |-> FALSE, stegoResult |-> JNull, embedCall |-> JNull,
   stegoFile |-> JNull, stegoBuffer |-> JNull, stegoDetected |-> FALSE,
   needsPassword |-> FALSE, decryptPassword |-> <<>>, decryptedFiles |-> <<>>,
   modified |-> FALSE, updating |-> FALSE, updateCall |-> JNull,
   reading |-> <<>>, adding |-> JNull, returned |-> "none"]

InitCodec ==
  /\ coverFile = NoCover
  /\ embedPassword = JUndefined
  /\ files = <<>>
  /\ password = JUndefined
  /\ extension = <<>>
  /\ origin = "none"
  /\ stegoBuffer = <<>>
  /\ detect = NotDetected
  /\ decryptPassword = JUndefined
  /\ extracted = NotExtracted

\* ------------------------------------------------------------------------
\* The codec's calls on whole buffers
\* ------------------------------------------------------------------------

Init ==
  /\ InitCodec
  /\ mask = NoMask
  /\ trailer = NoTrailer
  /\ repacked = NotRepacked
  /\ ui = InitialUi
  /\ heap = NoHeap
  /\ ids = NoIds
  /\ generation = 0

\* embedFiles(cover, list, pw) resolves.
EmbedFiles(cover, list, pw) ==
  /\ origin = "none"
  /\ LET r == embedFiles(cover, list, pw)
     IN /\ stegoBuffer' = r.blob.bytes
        /\ extension' = r.extension
  /\ coverFile' = cover
  /\ embedPassword' = pw
  /\ files' = HiddenList(list)
  /\ password' = pw
  /\ origin' = "embedFiles"
  /\ UNCHANGED << detect, decryptPassword, extracted, mask, trailer, repacked, ui, heap, ids, generation >>

\* A file that embedFiles did not write is read into the buffer.
LoadBuffer(b) ==
  /\ origin = "none"
  /\ stegoBuffer' = b
  /\ origin' = "load"
  /\ UNCHANGED << coverFile, embedPassword, files, password, extension, detect,
                  decryptPassword, extracted, mask, trailer, repacked, ui, heap, ids, generation >>

\* checkForHiddenData(stegoBuffer) returns (handleStegoSelect calls it as
\* soon as the buffer is read).
CheckForHiddenData ==
  /\ origin # "none"
  /\ ~detect.run
  /\ LET r == checkForHiddenData(stegoBuffer)
     IN detect' = [run |-> TRUE, found |-> r.found, hasPassword |-> r.hasPassword]
  /\ UNCHANGED << coverFile, embedPassword, files, password, extension, origin,
                  stegoBuffer, decryptPassword, extracted, mask, trailer, repacked, ui, heap, ids, generation >>

\* extractFiles(stegoBuffer, pw) returns or throws.
ExtractFiles(pw) ==
  /\ detect.run
  /\ ~extracted.run
  /\ LET r == extractFiles(stegoBuffer, pw)
     IN extracted' = [run |-> TRUE, ok |-> r.ok, error |-> r.error, files |-> r.files]
  /\ decryptPassword' = pw
  /\ UNCHANGED << coverFile, embedPassword, files, password, extension, origin,
                  stegoBuffer, detect, mask, trailer, repacked, ui, heap, ids, generation >>

\* reEmbedFiles(stegoBuffer, list, pw) resolves on a buffer embedFiles wrote;
\* its Blob is the new buffer.
ReEmbedFiles(list, pw) ==
  /\ origin = "embedFiles"
  /\ ~detect.run
  /\ stegoBuffer' = reEmbedFiles(stegoBuffer, list, pw).bytes
  /\ files' = list
  /\ password' = pw
  /\ origin' = "reEmbedFiles"
  /\ UNCHANGED << coverFile, embedPassword, extension, detect, decryptPassword,
                  extracted, mask, trailer, repacked, ui, heap, ids, generation >>

\* reEmbedFiles(stegoBuffer, files, pw) resolves for the files extractFiles
\* returned from a loaded buffer, as handleUpdateStego passes them on
\* (lines 354-374).
ReEmbedExtracted ==
  /\ origin = "load"
  /\ extracted.ok
  /\ ~repacked.run
  /\ repacked' = [run |-> TRUE, resolved |-> TRUE, error |-> "none",
                  files |-> extracted.files, password |-> decryptPassword,
                  bytes |-> reEmbedFiles(stegoBuffer, extracted.files,
                                         decryptPassword).bytes]
  /\ UNCHANGED << codecVars, mask, trailer, ui, heap, ids, generation >>

Next ==
  \/ \E cover \in Covers, list \in FileLists, pw \in Passwords :
       EmbedFiles(cover, list, pw)
  \/ \E b \in LoadBuffers : LoadBuffer(b)
  \/ CheckForHiddenData
  \/ \E pw \in Passwords : ExtractFiles(pw)
  \/ \E list \in FileLists, pw \in Passwords : ReEmbedFiles(HiddenList(list), pw)
  \/ ReEmbedExtracted

Spec == Init /\ [][Next]_vars

\* ------------------------------------------------------------------------
\* reEmbedFiles on a buffer read from a file
\* ------------------------------------------------------------------------

\* reEmbedFiles(stegoBuffer, list, pw) on a loaded buffer: lines 1389-1445
\* hold no throw and no check of the buffer, the promise resolves to a Blob.
ReEmbedLoaded(list, pw) ==
  /\ origin = "load"
  /\ ~repacked.run
  /\ repacked' = [run |-> TRUE, resolved |-> TRUE, error |-> "none",
                  files |-> list, password |-> pw,
                  bytes |-> reEmbedFiles(stegoBuffer, list, pw).bytes]
  /\ UNCHANGED << codecVars, mask, trailer, ui, heap, ids, generation >>

NextRepack ==
  \/ \E b \in LoadBuffers : LoadBuffer(b)
  \/ \E list \in FileLists, pw \in Passwords : ReEmbedLoaded(HiddenList(list), pw)

SpecRepack == Init /\ [][NextRepack]_vars

\* ------------------------------------------------------------------------
\* The handlers of the App component
\* ------------------------------------------------------------------------
\* A handler runs when its control is rendered and enabled; a handler that
\* awaits is one action up to the await and one from it. The active tab is
\* left out: switching tabs changes no other state. Toasts, ids and the
\* opened / editing sets are left out as well; a file of a list is named by
\* its place, counted from 1.

\* `text || undefined`
UiPassword(text) == IF text = <<>> THEN JUndefined ELSE JStr(text)

Buffer(bytes) == [t |-> "buffer", bytes |-> bytes]

\* handleCoverSelect, lines 122-127.
HandleCoverSelect(file) ==
  /\ ui' = [ui EXCEPT !.coverFile = file, !.stegoResult = JNull,
                      !.returned = "none"]
  /\ UNCHANGED << codecVars, mask, trailer, repacked, heap, ids, generation >>

\* The remove button of the cover, line 629.
RemoveCover ==
  /\ ui.coverFile # JNull
  /\ ui' = [ui EXCEPT !.coverFile = JNull, !.stegoResult = JNull,
                      !.returned = "none"]
  /\ UNCHANGED << codecVars, mask, trailer, repacked, heap, ids, generation >>

\* buildFilePreview(file), lines 109-120, without the url or text read from
\* the file.
buildFilePreview(file) ==
  [name |-> file.name, size |-> file.size, type |-> file.type]

\* handleSecretFilesSelect up to its await, lines 132-138.
HandleSecretFilesSelect(selected) ==
  /\ selected # <<>>
  /\ Len(ui.secretFiles) + Len(selected) <= MaxUiFiles
  /\ Len(ui.previewing) < MaxPreviewBuilds
  /\ ui' = [ui EXCEPT !.secretFiles = ui.secretFiles \o selected,
                      !.previewing = Append(ui.previewing, selected),
                      !.stegoResult = JNull, !.returned = "none"]
  /\ UNCHANGED << codecVars, mask, trailer, repacked, heap, ids, generation >>

\* The handleSecretFilesSelect call that is the k-th of those waiting goes on
\* from Promise.all, lines 138-139.
SecretPreviewsComplete(k) ==
  /\ k \in 1..Len(ui.previewing)
  /\ Len(ui.secretPreviews) + Len(ui.previewing[k]) <= MaxPreviews
  /\ ui' = [ui EXCEPT !.secretPreviews =
                        ui.secretPreviews
                          \o [j \in 1..Len(ui.previewing[k]) |->
                                buildFilePreview(ui.previewing[k][j])],
                      !.previewing = SubSeq(ui.previewing, 1, k - 1)
                                       \o SubSeq(ui.previewing, k + 1,
                                                 Len(ui.previewing)),
                      !.returned = "none"]
  /\ UNCHANGED << codecVars, mask, trailer, repacked, heap, ids, generation >>

\* removeSecretFile(index), lines 143-164.
RemoveSecretFile(index) ==
  /\ index \in 1..Len(ui.secretFiles)
  /\ ui' = [ui EXCEPT !.secretFiles =
                        SubSeq(ui.secretFiles, 1, index - 1)
                          \o SubSeq(ui.secretFiles, index + 1, Len(ui.secretFiles)),
                      !.secretPreviews =
                        SubSeq(ui.secretPreviews, 1, index - 1)
                          \o SubSeq(ui.secretPreviews, index + 1,
                                    Len(ui.secretPreviews)),
                      !.embedComments =
                        [k \in { j \in DOMAIN ui.embedComments : j < index }
                                 \cup { j - 1 : j \in { i \in DOMAIN ui.embedComments :
                                                         i > index } } |->
                           IF k < index THEN ui.embedComments[k]
                           ELSE ui.embedComments[k + 1]],
                      !.stegoResult = JNull, !.returned = "none"]
  /\ UNCHANGED << codecVars, mask, trailer, repacked, heap, ids, generation >>

\* The comment field of a secret file, line 732: embedComments is a record
\* from places to texts.
SetEmbedComment(index, text) ==
  /\ index \in 1..Len(ui.secretFiles)
  /\ ui' = [ui EXCEPT !.embedComments =
                        [k \in DOMAIN ui.embedComments \cup {index} |->
                           IF k = index THEN text ELSE ui.embedComments[k]],
                      !.returned = "none"]
  /\ UNCHANGED << codecVars, mask, trailer, repacked, heap, ids, generation >>

\* handleEmbed up to its await, lines 218-224; its button (line 785) is
\* disabled while embedding, without cover and without secret files.
HandleEmbed ==
  /\ ~ui.embedding
  /\ ui.coverFile # JNull
  /\ ui.secretFiles # <<>>
  /\ ui' = IF ui.coverFile = JNull \/ Len(ui.secretFiles) = 0
             THEN [ui EXCEPT !.returned = "handleEmbed"]
             ELSE [ui EXCEPT !.embedding = TRUE,
                             !.embedCall =
                               [coverFile |-> ui.coverFile,
                                secretFiles |-> ui.secretFiles,
                                password |-> UiPassword(ui.embedPassword),
                                embedComments |-> ui.embedComments],
                             !.returned = "none"]
  /\ UNCHANGED << codecVars, mask, trailer, repacked, heap, ids, generation >>

\* handleEmbed from its await, lines 224-240: the object URL stands for the
\* bytes of the blob. embedFiles (line 1226) has three parameters; the
\* comments handed to it as a fourth argument are not read.
EmbedFilesResolves ==
  /\ ui.embedCall # JNull
  /\ LET set(r) ==
           [ui EXCEPT !.stegoResult = [url |-> r.blob.bytes,
                                       extension |-> r.extension],
                      !.embedding = FALSE, !.embedCall = JNull,
                      !.returned = "none"]
     IN ui' = set(embedFiles(ui.embedCall.coverFile, ui.embedCall.secretFiles,
                             ui.embedCall.password))
  /\ UNCHANGED << codecVars, mask, trailer, repacked, heap, ids, generation >>

\* handleStegoSelect up to its awaits, lines 243-257; the select button is
\* rendered while no file is selected (line 864).
HandleStegoSelect(file) ==
  /\ ui.stegoFile = JNull
  /\ Len(ui.reading) < MaxReads
  /\ ui' = [ui EXCEPT !.stegoFile = file, !.decryptedFiles = <<>>,
                      !.modified = FALSE, !.needsPassword = FALSE,
                      !.decryptPassword = <<>>, !.stegoDetected = FALSE,
                      !.reading = Append(ui.reading, file), !.returned = "none"]
  /\ UNCHANGED << codecVars, mask, trailer, repacked, heap, ids, generation >>

\* The handleStegoSelect call that is the k-th of those waiting goes on from
\* readFileAsArrayBuffer, lines 261-271.
StegoReadCompletes(k) ==
  /\ k \in 1..Len(ui.reading)
  /\ LET set(check) ==
           [ui EXCEPT !.stegoBuffer = Buffer(ui.reading[k].data),
                      !.stegoDetected = check.found,
                      !.needsPassword =
                        IF check.found THEN check.hasPassword ELSE ui.needsPassword,
                      !.reading = SubSeq(ui.reading, 1, k - 1)
                                    \o SubSeq(ui.reading, k + 1, Len(ui.reading)),
                      !.returned = "none"]
     IN ui' = set(checkForHiddenData(ui.reading[k].data))
  /\ UNCHANGED << codecVars, mask, trailer, repacked, heap, ids, generation >>

\* clearStegoState, lines 471-485; its button is rendered while a file is
\* selected (line 888).
ClearStegoState ==
  /\ ui.stegoFile # JNull
  /\ ui' = [ui EXCEPT !.stegoFile = JNull, !.stegoBuffer = JNull,
                      !.decryptedFiles = <<>>, !.modified = FALSE,
                      !.needsPassword = FALSE, !.decryptPassword = <<>>,
                      !.stegoDetected = FALSE, !.returned = "none"]
  /\ UNCHANGED << codecVars, mask, trailer, repacked, heap, ids, generation >>

\* handleDecrypt, lines 277-283 and 297-298; its button is rendered for a
\* detected container and disabled while a needed password is empty
\* (lines 931-934).  The password field is rendered with needsPassword
\* alone (line 905) and is left empty here.
HandleDecrypt ==
  /\ ui.stegoFile # JNull
  /\ ui.stegoDetected
  /\ ~(ui.needsPassword /\ ui.decryptPassword = <<>>)
  /\ LET set(r) ==
           IF r.ok THEN [ui EXCEPT !.decryptedFiles = r.files,
                                   !.modified = FALSE, !.returned = "none"]
           ELSE [ui EXCEPT !.returned = "none"]
     IN ui' = IF ui.stegoBuffer = JNull
                THEN [ui EXCEPT !.returned = "handleDecrypt"]
                ELSE set(extractFiles(ui.stegoBuffer.bytes,
                                      UiPassword(ui.decryptPassword)))
  /\ UNCHANGED << codecVars, mask, trailer, repacked, heap, ids, generation >>

\* requestRemoveDecryptedFile and confirmRemoveDecryptedFile, lines 304-321,
\* for the file at index (counted from 1).
ConfirmRemoveDecryptedFile(index) ==
  /\ index \in 1..Len(ui.decryptedFiles)
  /\ ui' = [ui EXCEPT !.decryptedFiles =
                        SubSeq(ui.decryptedFiles, 1, index - 1)
                          \o SubSeq(ui.decryptedFiles, index + 1,
                                    Len(ui.decryptedFiles)),
                      !.modified = TRUE, !.returned = "none"]
  /\ UNCHANGED << codecVars, mask, trailer, repacked, heap, ids, generation >>

\* updateDecryptedFileComment, lines 211-216: { ...f, comment } for the
\* file at index.
UpdateDecryptedFileComment(index, text) ==
  /\ index \in 1..Len(ui.decryptedFiles)
  /\ ui' = [ui EXCEPT !.decryptedFiles[index] =
                        [name |-> @.name, size |-> @.size, type |-> @.type,
                         data |-> @.data, comment |-> JStr(text)],
                      !.modified = TRUE, !.returned = "none"]
  /\ UNCHANGED << codecVars, mask, trailer, repacked, heap, ids, generation >>

\* handleAddFileToDecrypted up to its awaits, lines 329-343; its input is
\* rendered with the unpacked list (lines 948-961). One read at a time.
HandleAddFileToDecrypted(selected) ==
  /\ ui.decryptedFiles # <<>>
  /\ ui.adding = JNull
  /\ selected # <<>>
  /\ ui' = [ui EXCEPT !.adding =
                        [files |-> [j \in 1..Len(selected) |->
                                      [name |-> JStr(selected[j].name),
                                       size |-> JNum(selected[j].size),
                                       type |-> JStr(selected[j].type),
                                       data |-> selected[j].data,
                                       comment |-> JStr(<<>>)]]],
                      !.returned = "none"]
  /\ UNCHANGED << codecVars, mask, trailer, repacked, heap, ids, generation >>

\* handleAddFileToDecrypted from its awaits, lines 344-346.
AddFileCompletes ==
  /\ ui.adding # JNull
  /\ Len(ui.decryptedFiles) + Len(ui.adding.files) <= MaxUiFiles
  /\ ui' = [ui EXCEPT !.decryptedFiles = ui.decryptedFiles \o ui.adding.files,
                      !.modified = TRUE, !.adding = JNull,
                      !.returned = "none"]
  /\ UNCHANGED << codecVars, mask, trailer, repacked, heap, ids, generation >>

\* HandleUpdateStego that clears `modified` when it returns at its guard.
HandleUpdateStegoClearsModified ==
  /\ ui.decryptedFiles # <<>>
  /\ ui.modified
  /\ ~ui.updating
  /\ ui' = IF ui.stegoBuffer = JNull \/ Len(ui.decryptedFiles) = 0
             THEN [ui EXCEPT !.modified = FALSE,
                             !.returned = "handleUpdateStego"]
             ELSE [ui EXCEPT !.updating = TRUE,
                             !.updateCall =
                               [stegoBuffer |-> ui.stegoBuffer.bytes,
                                files |-> ui.decryptedFiles,
                                password |-> UiPassword(ui.decryptPassword)],
                             !.returned = "none"]
  /\ UNCHANGED << codecVars, mask, trailer, repacked, heap, ids, generation >>

\* handleUpdateStego up to its await, lines 354-358; its button is rendered
\* with a modified, non-empty unpacked list and disabled while updating
\* (lines 948, 1097-1100).
HandleUpdateStego ==
  /\ ui.decryptedFiles # <<>>
  /\ ui.modified
  /\ ~ui.updating
  /\ ui' = IF ui.stegoBuffer = JNull \/ Len(ui.decryptedFiles) = 0
             THEN [ui EXCEPT !.returned = "handleUpdateStego"]
             ELSE [ui EXCEPT !.updating = TRUE,
                             !.updateCall =
                               [stegoBuffer |-> ui.stegoBuffer.bytes,
                                files |-> ui.decryptedFiles,
                                password |-> UiPassword(ui.decryptPassword)],
                             !.returned = "none"]
  /\ UNCHANGED << codecVars, mask, trailer, repacked, heap, ids, generation >>

\* handleUpdateStego from its awaits, lines 358-373.
ReEmbedFilesResolves ==
  /\ ui.updateCall # JNull
  /\ ui' = [ui EXCEPT !.stegoBuffer =
                        Buffer(reEmbedFiles(ui.updateCall.stegoBuffer,
                                            ui.updateCall.files,
                                            ui.updateCall.password).bytes),
                      !.modified = FALSE, !.updating = FALSE,
                      !.updateCall = JNull, !.returned = "none"]
  /\ UNCHANGED << codecVars, mask, trailer, repacked, heap, ids, generation >>

\* The handlers of the embed tab in every order, the preview builds of
\* overlapping handleSecretFilesSelect calls completing in any order.
NextSecretFiles ==
  \/ \E file \in UiCovers : HandleCoverSelect(file)
  \/ RemoveCover
  \/ \E file \in UiSecretFiles : HandleSecretFilesSelect(<< file >>)
  \/ \E k \in 1..MaxPreviewBuilds : SecretPreviewsComplete(k)
  \/ \E index \in 1..MaxUiFiles : RemoveSecretFile(index)
  \/ \E index \in 1..MaxUiFiles, text \in UiComments : SetEmbedComment(index, text)
  \/ HandleEmbed
  \/ EmbedFilesResolves

SpecSecretFiles == Init /\ [][NextSecretFiles]_vars

\* The handlers of the unpack tab in every order, the reads of overlapping
\* handleStegoSelect calls completing in any order.
NextUnpack ==
  \/ \E file \in UiStegoFiles : HandleStegoSelect(file)
  \/ \E k \in 1..MaxReads : StegoReadCompletes(k)
  \/ ClearStegoState
  \/ HandleDecrypt
  \/ \E index \in 1..MaxUiFiles : ConfirmRemoveDecryptedFile(index)
  \/ \E index \in 1..MaxUiFiles, text \in UiComments :
       UpdateDecryptedFileComment(index, text)
  \/ \E file \in UiAddedFiles : HandleAddFileToDecrypted(<< file >>)
  \/ AddFileCompletes
  \/ HandleUpdateStego
  \/ ReEmbedFilesResolves

SpecUnpack == Init /\ [][NextUnpack]_vars

\* Both tabs, for a user who lets the read of a selected file finish before
\* selecting another, and the previews of added secret files before adding
\* or removing one.

NextUI ==
  \/ \E file \in UiCovers : HandleCoverSelect(file)
  \/ RemoveCover
  \/ \E file \in UiSecretFiles :
       HandleSecretFilesSelect(<< file >>) /\ ui.previewing = <<>>
  \/ SecretPreviewsComplete(1)
  \/ \E index \in 1..MaxUiFiles : RemoveSecretFile(index) /\ ui.previewing = <<>>
  \/ \E index \in 1..MaxUiFiles, text \in UiComments : SetEmbedComment(index, text)
  \/ HandleEmbed
  \/ EmbedFilesResolves
  \/ \E file \in UiStegoFiles : ui.reading = <<>> /\ HandleStegoSelect(file)
  \/ StegoReadCompletes(1)
  \/ ClearStegoState
  \/ HandleDecrypt
  \/ \E index \in 1..MaxUiFiles : ConfirmRemoveDecryptedFile(index)
  \/ \E index \in 1..MaxUiFiles, text \in UiComments :
       UpdateDecryptedFileComment(index, text)
  \/ \E file \in UiAddedFiles : HandleAddFileToDecrypted(<< file >>)
  \/ AddFileCompletes
  \/ HandleUpdateStego
  \/ ReEmbedFilesResolves

SpecUI == Init /\ [][NextUI]_vars

\* ------------------------------------------------------------------------
\* reEmbedFiles on what reEmbedFiles wrote
\* ------------------------------------------------------------------------

\* reEmbedFiles(stegoBuffer, list, pw) resolves on the buffer embedFiles or
\* an earlier reEmbedFiles wrote, and its Blob is the new buffer, as
\* handleUpdateStego keeps it (lines 361-366).
ReEmbedAgain(list, pw) ==
  /\ origin \in {"embedFiles", "reEmbedFiles"}
  /\ generation < MaxGenerations
  /\ stegoBuffer' = reEmbedFiles(stegoBuffer, list, pw).bytes
  /\ files' = list
  /\ password' = pw
  /\ origin' = "reEmbedFiles"
  /\ detect' = NotDetected
  /\ extracted' = NotExtracted
  /\ decryptPassword' = JUndefined
  /\ generation' = generation + 1
  /\ UNCHANGED << coverFile, embedPassword, extension, mask, trailer, repacked,
                  ui, heap, ids >>

NextChain ==
  \/ \E cover \in Covers, list \in { l \in FileLists : Len(l) # 1 },
        pw \in { JUndefined, JStr(<< 107 >>) } : EmbedFiles(cover, list, pw)
  \/ \E list \in { l \in FileLists : Len(l) # 1 },
        pw \in { JUndefined, JStr(<< 107 >>) } : ReEmbedAgain(HiddenList(list), pw)
  \/ CheckForHiddenData
  \/ \E pw \in { JUndefined, JStr(<< 107 >>) } : ExtractFiles(pw)

SpecChain == Init /\ [][NextChain]_vars

\* ------------------------------------------------------------------------
\* The ids of HiddenFile records
\* ------------------------------------------------------------------------

\* files with ids[j] as the id of the j-th.
WithIds(list, draw) ==
  [j \in 1..Len(list) |->
     [id |-> draw[j], name |-> list[j].name, size |-> list[j].size,
      type |-> list[j].type, data |-> list[j].data]]

\* extractFiles(stegoBuffer, password) returns (lines 1380-1386): each file
\* gets id: generateId(), whatever that call draws.
ExtractWithIds(draw) ==
  /\ origin = "embedFiles"
  /\ Len(ids.extractions) < MaxCompared
  /\ LET returned(r) ==
           /\ r.ok
           /\ ids' = [ids EXCEPT !.extractions = Append(@, WithIds(r.files, draw))]
     IN returned(extractFiles(stegoBuffer, password))
  /\ UNCHANGED << codecVars, mask, trailer, repacked, ui, heap, generation >>

\* reEmbedFiles(stegoBuffer, list, password) resolves (lines 1406-1416) for
\* the files first extracted under ids of the caller's choice.
RepackWithIds(draw) ==
  /\ Len(ids.extractions) > 0
  /\ Len(ids.repacks) < MaxCompared
  /\ LET list == WithIds(ids.extractions[1], draw)
     IN ids' = [ids EXCEPT !.repacks =
                  Append(@, [files |-> list,
                             bytes |-> reEmbedFiles(stegoBuffer, list, password).bytes])]
  /\ UNCHANGED << codecVars, mask, trailer, repacked, ui, heap, generation >>

NextIds ==
  \/ \E cover \in UiCovers, list \in { l \in FileLists : Len(l) = MaxFiles },
        pw \in { JUndefined, JStr(<< 107 >>) } : EmbedFiles(cover, list, pw)
  \/ \E draw \in [1..MaxFiles -> IdValues] : ExtractWithIds(draw)
  \/ \E draw \in [1..MaxFiles -> IdValues] : RepackWithIds(draw)

SpecIds == Init /\ [][NextIds]_vars

\* ------------------------------------------------------------------------
\* The arrays the codec's calls read, allocate and write
\* ------------------------------------------------------------------------
\* heap.store[r] holds the bytes of array r: the arrays handed to a call and
\* the arrays calls returned. An array a call allocates and does not return
\* is not kept. heap.call names the last call, the arrays it was handed and
\* the arrays it returned.

InitHeap ==
  /\ InitCodec
  /\ mask = NoMask
  /\ trailer = NoTrailer
  /\ repacked = NotRepacked
  /\ ui = InitialUi
  /\ \E b \in HeapBuffers : heap = [NoHeap EXCEPT !.store = << b >>]
  /\ ids = NoIds
  /\ generation = 0

\* xorEncrypt(data, password), lines 1151-1159: `data` itself is returned
\* for an empty password; otherwise the bytes are written to `result`, a
\* new array.
HeapXorInPlace(r, pw) ==
  /\ heap.calls < MaxCalls
  /\ r \in 1..Len(heap.store)
  /\ heap' = [store |-> [heap.store EXCEPT ![r] = xorEncrypt(heap.store[r], pw)],
              calls |-> heap.calls + 1,
              call |-> [fn |-> "xorEncrypt", inputs |-> {r}, outputs |-> {r},
                        key |-> pw]]
  /\ UNCHANGED << codecVars, mask, trailer, repacked, ui, ids, generation >>

HeapXorEncrypt(r, pw) ==
  /\ heap.calls < MaxCalls
  /\ r \in 1..Len(heap.store)
  /\ heap' = IF ~Truthy(pw)
               THEN [heap EXCEPT !.calls = heap.calls + 1,
                                 !.call = [fn |-> "xorEncrypt", inputs |-> {r},
                                           outputs |-> {r}, key |-> pw]]
               ELSE [store |-> Append(heap.store, xorEncrypt(heap.store[r], pw)),
                     calls |-> heap.calls + 1,
                     call |-> [fn |-> "xorEncrypt", inputs |-> {r},
                               outputs |-> {Len(heap.store) + 1}, key |-> pw]]
  /\ UNCHANGED << codecVars, mask, trailer, repacked, ui, ids, generation >>

\* checkForHiddenData(buffer), lines 1283-1322: the buffer is read through a
\* view and a slice copy; no array is returned.
HeapCheckForHiddenData(r) ==
  /\ heap.calls < MaxCalls
  /\ r \in 1..Len(heap.store)
  /\ heap' = [heap EXCEPT !.calls = heap.calls + 1,
                          !.call = [fn |-> "checkForHiddenData", inputs |-> {r},
                                    outputs |-> {}, key |-> JUndefined]]
  /\ UNCHANGED << codecVars, mask, trailer, repacked, ui, ids, generation >>

\* extractFiles(buffer, password), lines 1324-1387: the payload is a slice
\* copy, unmasked into a new array; each file's data is the new array
\* base64ToArrayBuffer fills (lines 1217-1224). Nothing is returned when it
\* throws.
HeapExtractFiles(r, pw) ==
  /\ heap.calls < MaxCalls
  /\ r \in 1..Len(heap.store)
  /\ LET returned(res) ==
           [store |-> heap.store \o [j \in 1..Len(res.files) |-> res.files[j].data],
            calls |-> heap.calls + 1,
            call |-> [fn |-> "extractFiles", inputs |-> {r},
                      outputs |-> { Len(heap.store) + j : j \in 1..Len(res.files) },
                      key |-> pw]]
     IN heap' = returned(extractFiles(heap.store[r], pw))
  /\ UNCHANGED << codecVars, mask, trailer, repacked, ui, ids, generation >>

\* reEmbedFiles(stegoBuffer, [file], password), lines 1389-1445, for a file
\* whose data is array f: the cover is a slice copy, the file's data is
\* read through views (lines 1206-1215), and the Blob is made from
\* `combined`, a new array.
HeapReEmbedFiles(r, f, pw) ==
  /\ heap.calls < MaxCalls
  /\ r \in 1..Len(heap.store)
  /\ f \in 1..Len(heap.store)
  /\ heap' = [store |->
                Append(heap.store,
                       reEmbedFiles(heap.store[r],
                                    << AsHidden(SecretFile(<< 102 >>, <<>>,
                                                           heap.store[f])) >>,
                                    pw).bytes),
              calls |-> heap.calls + 1,
              call |-> [fn |-> "reEmbedFiles", inputs |-> {r, f},
                        outputs |-> {Len(heap.store) + 1}, key |-> pw]]
  /\ UNCHANGED << codecVars, mask, trailer, repacked, ui, ids, generation >>

NextHeap ==
  \/ \E r \in 1..(2 * MaxCalls), pw \in {JStr(<<>>), JStr(<< 107 >>)} :
       HeapXorEncrypt(r, pw)
  \/ \E r \in 1..(2 * MaxCalls) : HeapCheckForHiddenData(r)
  \/ \E r \in 1..(2 * MaxCalls), pw \in {JUndefined, JStr(<< 107 >>)} :
       HeapExtractFiles(r, pw)
  \/ \E r \in 1..(2 * MaxCalls), f \in 1..(2 * MaxCalls),
        pw \in {JUndefined, JStr(<< 107 >>)} : HeapReEmbedFiles(r, f, pw)

SpecHeap == InitHeap /\ [][NextHeap]_vars

\* ------------------------------------------------------------------------
\* xorEncrypt on its own
\* ------------------------------------------------------------------------

InitMask ==
  /\ InitCodec
  /\ trailer = NoTrailer
  /\ repacked = NotRepacked
  /\ ui = InitialUi
  /\ heap = NoHeap
  /\ ids = NoIds
  /\ generation = 0
  /\ \E d \in MaskInputs, k \in MaskKeys :
       mask = [stage |-> "input", data |-> d, key |-> k, once |-> <<>>,
               twice |-> <<>>]

\* xorEncrypt(data, key)
Mask ==
  /\ mask.stage = "input"
  /\ mask' = [mask EXCEPT !.stage = "masked",
                          !.once = xorEncrypt(mask.data, mask.key)]
  /\ UNCHANGED << codecVars, trailer, repacked, ui, heap, ids, generation >>

\* xorEncrypt(xorEncrypt(data, key), key)
Unmask ==
  /\ mask.stage = "masked"
  /\ mask' = [mask EXCEPT !.stage = "unmasked",
                          !.twice = xorEncrypt(mask.once, mask.key)]
  /\ UNCHANGED << codecVars, trailer, repacked, ui, heap, ids, generation >>

NextMask == Mask \/ Unmask

SpecMask == InitMask /\ [][NextMask]_vars

\* ------------------------------------------------------------------------
\* The trailer of buffers of any length
\* ------------------------------------------------------------------------

InitTrailer ==
  /\ InitCodec
  /\ mask = NoMask
  /\ trailer = NoTrailer
  /\ repacked = NotRepacked
  /\ ui = InitialUi
  /\ heap = NoHeap
  /\ ids = NoIds
  /\ generation = 0

\* embedFiles / reEmbedFiles write the trailer of a payload of
\* sizeHi * 65536 + sizeLo bytes after a cover of coverLength bytes.
WriteTrailer(coverLength, sizeHi, sizeLo) ==
  /\ trailer.stage = "none"
  /\ LET w == TrailerWritten(coverLength, sizeHi, sizeLo)
     IN trailer' = [trailer EXCEPT !.stage = "written", !.sizeHi = sizeHi,
                                   !.sizeLo = sizeLo, !.lengthHi = w.lengthHi,
                                   !.lengthLo = w.lengthLo, !.tail = w.tail]
  /\ UNCHANGED << codecVars, mask, repacked, ui, heap, ids, generation >>

\* A buffer of lengthHi * 65536 + lengthLo >= 8 bytes that ends in the size
\* field sizeBytes and the tag is loaded.
LoadTrailer(lengthHi, lengthLo, sizeBytes) ==
  /\ trailer.stage = "none"
  /\ trailer' = [trailer EXCEPT !.stage = "loaded", !.lengthHi = lengthHi,
                                !.lengthLo = lengthLo,
                                !.tail = sizeBytes \o MAGIC_BYTES]
  /\ UNCHANGED << codecVars, mask, repacked, ui, heap, ids, generation >>

\* checkForHiddenData, lines 1286-1321: past the framing checks every path
\* returns found: true.
TrailerCheck ==
  /\ trailer.stage # "none"
  /\ ~trailer.checked.run
  /\ LET t == trailer.tail
         framing == checkFraming(trailer.lengthHi, trailer.lengthLo, t)
     IN trailer' = [trailer EXCEPT !.checked =
                      [run |-> TRUE, accepted |-> framing = "none",
                       error |-> framing,
                       payloadSize |-> ReadInt32(t[1], t[2], t[3], t[4])]]
  /\ UNCHANGED << codecVars, mask, repacked, ui, heap, ids, generation >>

\* extractFiles, lines 1327-1351.
TrailerExtract ==
  /\ trailer.stage # "none"
  /\ ~trailer.extract.run
  /\ LET t == trailer.tail
         framing == extractFraming(trailer.lengthHi, trailer.lengthLo, t)
     IN trailer' = [trailer EXCEPT !.extract =
                      [run |-> TRUE, accepted |-> framing = "none",
                       error |-> framing,
                       payloadSize |-> ReadInt32(t[1], t[2], t[3], t[4])]]
  /\ UNCHANGED << codecVars, mask, repacked, ui, heap, ids, generation >>

\* reEmbedFiles, lines 1395-1401: the size is read without a check.
TrailerReEmbed ==
  /\ trailer.stage # "none"
  /\ ~trailer.reEmbed.run
  /\ LET t == trailer.tail
     IN trailer' = [trailer EXCEPT !.reEmbed =
                      [run |-> TRUE, accepted |-> TRUE, error |-> "none",
                       payloadSize |-> ReadInt32(t[1], t[2], t[3], t[4])]]
  /\ UNCHANGED << codecVars, mask, repacked, ui, heap, ids, generation >>

NextTrailer ==
  \/ \E c \in TrailerCoverLengths, s \in TrailerSizes : WriteTrailer(c, s[1], s[2])
  \/ \E n \in TrailerLengths, f \in TrailerSizeFields : LoadTrailer(n[1], n[2], f)
  \/ TrailerCheck
  \/ TrailerExtract
  \/ TrailerReEmbed

SpecTrailer == InitTrailer /\ [][NextTrailer]_vars

\* ------------------------------------------------------------------------
\* Properties
\* ------------------------------------------------------------------------

\* A password as the text it stands for: absent and empty are both "none".
PasswordText(pw) == IF pw.t = "str" THEN pw.s ELSE <<>>

\* The entries of got are those of want, in order: the same names, types,
\* sizes and bytes.
SameFiles(got, want) ==
  /\ Len(got) = Len(want)
  /\ \A j \in 1..Len(want) :
       /\ got[j].name = want[j].name
       /\ got[j].type = want[j].type
       /\ got[j].size = want[j].size
       /\ got[j].data = want[j].data

\* n as four big-endian bytes, for 0 <= n < 2^31.
BigEndian4(n) ==
  << n \div 16777216, (n \div 65536) % 256, (n \div 256) % 256, n % 256 >>

\* The number (below 2^31) the four bytes before the last four of b spell,
\* big-endian.
LengthField(b) ==
  LET n == Len(b)
  IN b[n - 7] * 16777216 + b[n - 6] * 65536 + b[n - 5] * 256 + b[n - 4]

\* The tag "STEG".
Tag == << 83, 84, 69, 71 >>

\* The last n bytes of buffer b (all of it when it is shorter).
LastBytes(b, n) == IF Len(b) <= n THEN b ELSE SubSeq(b, Len(b) - n + 1, Len(b))

\* The payload bytes the document of the packed list and password comes to.
ExpectedPayload(list, pw) ==
  PayloadBytes(
    PayloadObj([j \in 1..Len(list) |->
                  FileEntry(list[j].name, list[j].type, list[j].size,
                            JStr(arrayBufferToBase64(list[j].data)))], pw), pw)

\* C1: a buffer embedFiles wrote from a non-empty file list and no password,
\* extracted with no password, gives back a list of the same length whose
\* i-th entry has the name, type, size and bytes of the i-th packed file.
C1_RoundTripNoPassword ==
  (/\ origin = "embedFiles"
   /\ files # <<>>
   /\ PasswordText(password) = <<>>
   /\ extracted.run
   /\ PasswordText(decryptPassword) = <<>>)
  => /\ extracted.ok
     /\ SameFiles(extracted.files, files)

C1_Witness ==
  /\ origin = "embedFiles"
  /\ Len(files) = 2
  /\ files[1].data # <<>>
  /\ coverFile.data # <<>>
  /\ password = JUndefined
  /\ extracted.run
  /\ decryptPassword = JUndefined
  /\ extracted.ok

\* C2: a buffer embedFiles wrote from a non-empty file list and a non-empty
\* password, extracted with that same password, gives back the packed
\* files in order.
C2_RoundTripWithPassword ==
  (/\ origin = "embedFiles"
   /\ files # <<>>
   /\ PasswordText(password) # <<>>
   /\ extracted.run
   /\ decryptPassword = password)
  => /\ extracted.ok
     /\ SameFiles(extracted.files, files)

C2_Witness ==
  /\ origin = "embedFiles"
  /\ Len(files) = 2
  /\ files[1].data # <<>>
  /\ coverFile.data # <<>>
  /\ password = JStr(<< 107 >>)
  /\ extracted.run
  /\ decryptPassword = password
  /\ extracted.ok

\* C3: a buffer embedFiles wrote with password p, extracted with a password
\* q that differs from p (absent and empty count as no password), never
\* gives back the packed files.
C3_WrongPasswordNeverOriginal ==
  (/\ origin = "embedFiles"
   /\ extracted.run
   /\ PasswordText(decryptPassword) # PasswordText(password))
  => ~(extracted.ok /\ SameFiles(extracted.files, files))

\* C4: for a buffer embedFiles wrote, checkForHiddenData answers found, and
\* hasPassword exactly when the password was non-empty.
C4_DetectAgreesWithPack ==
  (origin = "embedFiles" /\ detect.run)
  => /\ detect.found
     /\ detect.hasPassword <=> (PasswordText(password) # <<>>)

\* C5: for a buffer whose last four bytes are not the tag, or that is
\* shorter than 8 bytes, checkForHiddenData answers not found, and
\* extractFiles, with or without a password, throws a framing error and
\* gives no files.
C5_NonContainerRejected ==
  (Len(stegoBuffer) < 8 \/ LastBytes(stegoBuffer, 4) # Tag)
  => /\ detect.run => ~detect.found
     /\ extracted.run => /\ ~extracted.ok
                         /\ extracted.error \in FramingErrors
                         /\ extracted.files = <<>>

C5_Witness ==
  /\ origin = "load"
  /\ Len(stegoBuffer) >= 8
  /\ LastBytes(stegoBuffer, 4) = << 83, 84, 0, 71 >>
  /\ detect.run
  /\ ~detect.found
  /\ extracted.run
  /\ PasswordText(decryptPassword) # <<>>
  /\ extracted.error = E_noMagic

\* C6: after c1 = embedFiles(cover, filesA) and c2 = reEmbedFiles(c1, filesB),
\* both without password, c2 starts with the bytes of cover, its length is
\* that of cover plus the new payload length plus 8, and extractFiles(c2)
\* gives back filesB in order.
C6_RepackPreservesCover ==
  (/\ origin = "reEmbedFiles"
   /\ PasswordText(embedPassword) = <<>>
   /\ PasswordText(password) = <<>>)
  => /\ Len(stegoBuffer) >= Len(coverFile.data) + 8
     /\ SubSeq(stegoBuffer, 1, Len(coverFile.data)) = coverFile.data
     /\ LET newPayloadLength == LengthField(stegoBuffer)
        IN /\ newPayloadLength > 0
           /\ Len(stegoBuffer) = Len(coverFile.data) + newPayloadLength + 8
     /\ (extracted.run /\ PasswordText(decryptPassword) = <<>>)
        => /\ extracted.ok
           /\ SameFiles(extracted.files, files)

C6_Witness ==
  /\ origin = "reEmbedFiles"
  /\ embedPassword = JUndefined
  /\ password = JUndefined
  /\ Len(coverFile.data) = 100
  /\ Len(files) = 2
  /\ extracted.run
  /\ decryptPassword = JUndefined
  /\ extracted.ok

\* C8: the buffer embedFiles or reEmbedFiles wrote is the cover bytes, then
\* the (masked) payload bytes, then the payload length as four big-endian
\* bytes, then the tag; the payload length is greater than 0 and is the
\* number of payload bytes, and the buffer is as long as cover, payload
\* and 8 trailer bytes together.
C8_ContainerLayout ==
  (origin \in {"embedFiles", "reEmbedFiles"} /\ ~detect.run)
  => LET payload == ExpectedPayload(files, password)
     IN /\ Len(payload) > 0
        /\ Len(stegoBuffer) = Len(coverFile.data) + Len(payload) + 8
        /\ stegoBuffer = coverFile.data \o payload \o BigEndian4(Len(payload)) \o Tag
        /\ LastBytes(stegoBuffer, 8) = BigEndian4(Len(payload)) \o Tag

C8_Witness ==
  /\ origin = "reEmbedFiles"
  /\ ~detect.run
  /\ Len(coverFile.data) = 100
  /\ PasswordText(password) # <<>>
  /\ Len(files) = 2

\* The bit of weight 2^j of byte b.
BitOf(b, j) == (b \div (2 ^ j)) % 2

\* The UTF-8 bytes of the keys masked with (a lone surrogate is encoded as
\* U+FFFD); undefined and "" have none.
Utf8OfKey(k) ==
  CASE k = JStr(<< 107 >>) -> << 107 >>
    [] k = JStr(<< 107, 107 >>) -> << 107, 107 >>
    [] k = JStr(<< 233, 120 >>) -> << 195, 169, 120 >>
    [] k = JStr(<< 55296 >>) -> << 239, 191, 189 >>
    [] k = JStr(<< 97, 98, 99, 100 >>) -> << 97, 98, 99, 100 >>
    [] k = JStr(<< 8364 >>) -> << 226, 130, 172 >>
    [] OTHER -> <<>>

\* C7: xorEncrypt applied twice with the same key gives the bytes back;
\* applied once, byte i of the output is byte i of the input XOR byte
\* (i mod key length) of the key's UTF-8 bytes; an empty or undefined key
\* leaves the bytes as they are.
C7_IdempotentMask ==
  LET key == Utf8OfKey(mask.key)
  IN /\ mask.stage \in {"masked", "unmasked"}
        => /\ Len(mask.once) = Len(mask.data)
           /\ key = <<>> => mask.once = mask.data
           /\ key # <<>> =>
                \A i \in 1..Len(mask.data) :
                  /\ mask.once[i] \in 0..255
                  /\ \A j \in 0..7 :
                       BitOf(mask.once[i], j) =
                         (BitOf(mask.data[i], j)
                            + BitOf(key[((i - 1) % Len(key)) + 1], j)) % 2
     /\ mask.stage = "unmasked" => mask.twice = mask.data

C7_Witness ==
  /\ mask.stage = "unmasked"
  /\ mask.key = JStr(<< 233, 120 >>)
  /\ Len(mask.data) = 3
  /\ mask.once # mask.data
  /\ mask.twice = mask.data

\* The declared payload length of a buffer's trailer, as halves (hi, lo) of
\* the unsigned number its four length bytes spell.
DeclaredHi == trailer.tail[1] * 256 + trailer.tail[2]
DeclaredLo == trailer.tail[3] * 256 + trailer.tail[4]

\* 0 < declared length <= buffer length - 8
DeclaredWithinBuffer ==
  LET restHi == IF trailer.lengthLo >= 8 THEN trailer.lengthHi ELSE trailer.lengthHi - 1
      restLo == IF trailer.lengthLo >= 8 THEN trailer.lengthLo - 8
                ELSE trailer.lengthLo + 65536 - 8
  IN /\ DeclaredHi > 0 \/ DeclaredLo > 0
     /\ DeclaredHi < restHi \/ (DeclaredHi = restHi /\ DeclaredLo <= restLo)

\* C9: a buffer of at least 8 bytes that ends in the tag is accepted by
\* checkForHiddenData (found) and by extractFiles (no framing error)
\* exactly when its declared payload length L has 0 < L <= length - 8;
\* otherwise extractFiles throws a framing error.
C9_LengthBoundValidation ==
  trailer.stage # "none"
  => /\ trailer.checked.run => (trailer.checked.accepted <=> DeclaredWithinBuffer)
     /\ trailer.extract.run =>
          /\ trailer.extract.accepted <=> DeclaredWithinBuffer
          /\ ~DeclaredWithinBuffer => trailer.extract.error \in FramingErrors

\* C10: the payload size checkForHiddenData, extractFiles and reEmbedFiles
\* read from a trailer written for a payload of L bytes, 1 <= L <= 2^32 - 1,
\* is L.
C10_LengthReadBackUnsigned ==
  trailer.stage = "written"
  => \A r \in {trailer.checked, trailer.extract, trailer.reEmbed} :
       r.run => /\ r.payloadSize >= 0
                /\ r.payloadSize \div 65536 = trailer.sizeHi
                /\ r.payloadSize % 65536 = trailer.sizeLo

\* The payload length a buffer of at least 8 bytes declares, for buffers of
\* fewer than 2^24 bytes: a length with a non-zero first byte is beyond any
\* of them, and reads as -1 here.
FramedLength(b) ==
  LET n == Len(b)
  IN IF b[n - 7] # 0 THEN -1
     ELSE b[n - 6] * 65536 + b[n - 5] * 256 + b[n - 4]

\* b passes framing validation: at least 8 bytes, the tag at the end, and
\* 0 < declared length <= length - 8.
WellFramed(b) ==
  /\ Len(b) >= 8
  /\ LastBytes(b, 4) = Tag
  /\ FramedLength(b) > 0
  /\ FramedLength(b) <= Len(b) - 8

\* The payload bytes of a well-framed buffer.
FramedPayload(b) == SubSeq(b, Len(b) - 7 - FramedLength(b), Len(b) - 8)

\* C11: on a buffer that passes framing validation checkForHiddenData
\* answers found; when the payload text parses to a value other than null,
\* hasPassword is the truthiness of that value's hasPassword property; when
\* parsing throws, or gives null, hasPassword is true.
C11_DetectOnFramedBuffer ==
  (detect.run /\ WellFramed(stegoBuffer))
  => /\ detect.found
     /\ LET agrees(doc) ==
              IF doc.ok /\ doc.v.t # "null"
                THEN detect.hasPassword <=> Truthy(GetProp(doc.v, K_hasPassword))
                ELSE detect.hasPassword
        IN agrees(JsonParse(TextDecode(FramedPayload(stegoBuffer))))

C11_Witness ==
  /\ origin = "load"
  /\ detect.run
  /\ WellFramed(stegoBuffer)
  /\ FramedPayload(stegoBuffer) = << 110, 117, 108, 108 >>
  /\ detect.found
  /\ detect.hasPassword

\* C12: for every buffer and password, extractFiles throws one of its three
\* framing errors exactly when checkForHiddenData answers not found on the
\* same buffer; it then gives no files, whatever the password.
C12_FramingErrorIffNotFound ==
  (detect.run /\ extracted.run)
  => /\ (extracted.error \in FramingErrors) <=> ~detect.found
     /\ ~detect.found => (~extracted.ok /\ extracted.files = <<>>)

C12_Witness ==
  /\ origin = "load"
  /\ detect.run
  /\ ~detect.found
  /\ extracted.run
  /\ PasswordText(decryptPassword) # <<>>
  /\ LastBytes(stegoBuffer, 8) = << 0, 0, 0, 13 >> \o Tag
  /\ extracted.error = E_badSize

\* The value the payload of a well-framed buffer b reads as once unmasked
\* with password pw: the parse of its text.
ReadDocument(b, pw) == JsonParse(TextDecode(xorEncrypt(FramedPayload(b), pw)))

\* C13: on a buffer that passes framing validation and whose payload,
\* unmasked with the password given, is not parseable or parses to a value
\* without a `files` array (an object without files, files that is no
\* array, null, a number, a string, an array), extractFiles throws one of
\* its decode / format errors and gives no files.
C13_NoFilesArrayRejected ==
  (extracted.run /\ WellFramed(stegoBuffer))
  => LET rejected(doc) ==
           (~doc.ok \/ GetProp(doc.v, K_files).t # "arr")
           => /\ ~extracted.ok
              /\ extracted.error \in DecodeErrors
              /\ extracted.files = <<>>
     IN rejected(ReadDocument(stegoBuffer, decryptPassword))

\* UTF-8 well-formedness of a byte sequence, byte by byte: the number of
\* continuation bytes a lead byte takes (-1 for a byte that leads nothing),
\* and the range its first continuation byte must lie in.
Utf8Follows(x) ==
  IF x < 128 THEN 0
  ELSE IF x >= 194 /\ x <= 223 THEN 1
  ELSE IF x >= 224 /\ x <= 239 THEN 2
  ELSE IF x >= 240 /\ x <= 244 THEN 3
  ELSE -1

Utf8IsContinuation(x) == x >= 128 /\ x <= 191

Utf8SecondInRange(lead, x) ==
  /\ Utf8IsContinuation(x)
  /\ lead = 224 => x >= 160
  /\ lead = 237 => x <= 159
  /\ lead = 240 => x >= 144
  /\ lead = 244 => x <= 143

WellFormedUtf8(b) ==
  \A i \in 1..Len(b) :
    IF Utf8IsContinuation(b[i])
      THEN \E k \in 1..3 :
             /\ i - k >= 1
             /\ Utf8Follows(b[i - k]) >= k
             /\ \A m \in 1..(k - 1) : Utf8IsContinuation(b[i - m])
      ELSE /\ Utf8Follows(b[i]) >= 0
           /\ i + Utf8Follows(b[i]) <= Len(b)
           /\ \A m \in 1..Utf8Follows(b[i]) :
                IF m = 1 THEN Utf8SecondInRange(b[i], b[i + 1])
                ELSE Utf8IsContinuation(b[i + m])

\* C14: on a buffer that passes framing validation and whose payload bytes,
\* unmasked with the password given, are not well-formed UTF-8, extractFiles
\* throws one of its decode errors and gives no file list.
C14_InvalidUtf8Rejected ==
  (/\ extracted.run
   /\ WellFramed(stegoBuffer)
   /\ ~WellFormedUtf8(xorEncrypt(FramedPayload(stegoBuffer), decryptPassword)))
  => /\ ~extracted.ok
     /\ extracted.error \in DecodeErrors
     /\ extracted.files = <<>>

\* The document {files, hasPassword} of a list of HiddenFile records, with
\* the given flag, and its serialization as UTF-8 bytes.
DocumentOf(list, flag) ==
  JObj(<< [k |-> K_files,
           v |-> JArr([j \in 1..Len(list) |->
                   JObj(<< [k |-> K_name, v |-> list[j].name],
                           [k |-> K_type, v |-> list[j].type],
                           [k |-> K_size, v |-> list[j].size],
                           [k |-> K_dataBase64,
                            v |-> JStr(arrayBufferToBase64(list[j].data))] >>)])],
          [k |-> K_hasPassword, v |-> JBool(flag)] >>)

Serialized(list, flag) == TextEncode(Stringify(DocumentOf(list, flag)))

\* payload is plain XOR the bytes of key repeated (key is not empty).
MaskedWith(payload, plain, key) ==
  /\ Len(payload) = Len(plain)
  /\ \A i \in 1..Len(plain) :
       /\ payload[i] \in 0..255
       /\ \A j \in 0..7 :
            BitOf(payload[i], j) =
              (BitOf(plain[i], j) + BitOf(key[((i - 1) % Len(key)) + 1], j)) % 2

\* C15: the buffer embedFiles writes with password "" is the one it writes
\* with password undefined: in both cases the payload is the serialized
\* document with hasPassword false, not masked. With a non-empty password
\* (here of ASCII characters, which are their own UTF-8 bytes) the payload
\* is the serialized document with hasPassword true, XOR-masked with the
\* password's bytes.
C15_PasswordSelectsMask ==
  origin = "embedFiles"
  => /\ WellFramed(stegoBuffer)
     /\ LET key == PasswordText(password)
            written(payload, plain) ==
              IF key = <<>> THEN payload = plain
              ELSE MaskedWith(payload, plain, key)
        IN written(FramedPayload(stegoBuffer), Serialized(files, key # <<>>))

C15_Witness ==
  /\ origin = "embedFiles"
  /\ password = JStr(<<>>)
  /\ Len(files) = 2
  /\ FramedPayload(stegoBuffer) = Serialized(files, FALSE)

\* C16: for c1 = embedFiles(cover, filesA, p1) and c2 = reEmbedFiles(c1,
\* filesB, p2), whatever p1 and p2: c2 is the cover bytes, then the
\* serialized document of filesB with hasPassword = (p2 is non-empty),
\* masked with p2 when p2 is non-empty, then the trailer, so that no byte of
\* c1's payload is left in it; and extractFiles(c2, p2) gives back filesB.
C16_RepackReplacesPassword ==
  origin = "reEmbedFiles"
  => /\ WellFramed(stegoBuffer)
     /\ Len(stegoBuffer) = Len(coverFile.data) + FramedLength(stegoBuffer) + 8
     /\ SubSeq(stegoBuffer, 1, Len(coverFile.data)) = coverFile.data
     /\ LET key == PasswordText(password)
            written(payload, plain) ==
              IF key = <<>> THEN payload = plain
              ELSE MaskedWith(payload, plain, key)
        IN written(FramedPayload(stegoBuffer), Serialized(files, key # <<>>))
     /\ (extracted.run /\ decryptPassword = password)
        => /\ extracted.ok
           /\ SameFiles(extracted.files, files)

C16_Witness ==
  /\ origin = "reEmbedFiles"
  /\ embedPassword = JStr(<< 107 >>)
  /\ password = LongPassword
  /\ Len(files) = 1
  /\ extracted.run
  /\ decryptPassword = LongPassword
  /\ extracted.ok
  /\ SameFiles(extracted.files, files)

\* C17: on an original buffer that fails framing validation (fewer than 8
\* bytes, no tag at the end, declared length 0 or beyond length - 8)
\* reEmbedFiles ends with a framing error and gives no output buffer.
C17_RepackRejectsUnframed ==
  (repacked.run /\ ~WellFramed(stegoBuffer))
  => /\ ~repacked.resolved
     /\ repacked.error \in FramingErrors
     /\ repacked.bytes = <<>>

\* The extension of a file name as the claim reads it: the text after the
\* last '.', and "bin" when the name has no '.', ends in '.', or is empty.
ExtensionOf(name) ==
  IF \A i \in 1..Len(name) : name[i] # 46 THEN << 98, 105, 110 >>
  ELSE IF name[Len(name)] = 46 THEN << 98, 105, 110 >>
  ELSE LET dot == CHOOSE i \in 1..Len(name) :
                    /\ name[i] = 46
                    /\ \A m \in (i + 1)..Len(name) : name[m] # 46
       IN SubSeq(name, dot + 1, Len(name))

\* C18: the extension embedFiles returns is the text after the last '.' of
\* the cover's file name, and "bin" for a cover name without extension.
C18_ExtensionOfCoverName ==
  origin = "embedFiles" => extension = ExtensionOf(coverFile.name)

\* C19: the buffer embedFiles or reEmbedFiles writes for an empty file list
\* is a container: it passes framing validation with a payload of more than
\* 0 bytes, checkForHiddenData answers found on it, and extractFiles with
\* the password it was written with returns the empty list, without error.
C19_EmptyListIsContainer ==
  (origin \in {"embedFiles", "reEmbedFiles"} /\ files = <<>>)
  => /\ WellFramed(stegoBuffer)
     /\ FramedLength(stegoBuffer) > 0
     /\ detect.run => detect.found
     /\ (extracted.run /\ decryptPassword = password)
        => /\ extracted.ok
           /\ extracted.error = "none"
           /\ extracted.files = <<>>

C19_Witness ==
  /\ origin = "reEmbedFiles"
  /\ files = <<>>
  /\ password = JStr(<< 107 >>)
  /\ detect.run
  /\ detect.found
  /\ extracted.run
  /\ decryptPassword = password
  /\ extracted.ok
  /\ extracted.files = <<>>

\* C20: a step that starts an embedFiles call starts it with the cover and
\* the non-empty secret-file list of the state it is taken in, and a step
\* that starts a reEmbedFiles call starts it with the loaded buffer and the
\* non-empty unpacked list of that state; a step in which handleEmbed or
\* handleUpdateStego returns at its guard (no cover, no secret file, no
\* buffer or no unpacked file) starts no call and leaves stegoResult,
\* stegoBuffer and modified as they were.
C20_GuardedCalls ==
  [][/\ (ui'.embedCall # JNull /\ ui'.embedCall # ui.embedCall)
        => /\ ui.coverFile # JNull
           /\ ui.secretFiles # <<>>
           /\ ui'.embedCall.coverFile = ui.coverFile
           /\ ui'.embedCall.secretFiles = ui.secretFiles
     /\ (ui'.updateCall # JNull /\ ui'.updateCall # ui.updateCall)
        => /\ ui.stegoBuffer # JNull
           /\ ui.decryptedFiles # <<>>
           /\ ui'.updateCall.stegoBuffer = ui.stegoBuffer.bytes
           /\ ui'.updateCall.files = ui.decryptedFiles
     /\ (\/ /\ ui'.returned = "handleEmbed"
            /\ ui.coverFile = JNull \/ ui.secretFiles = <<>>
         \/ /\ ui'.returned = "handleUpdateStego"
            /\ ui.stegoBuffer = JNull \/ ui.decryptedFiles = <<>>)
        => /\ ui'.stegoResult = ui.stegoResult
           /\ ui'.stegoBuffer = ui.stegoBuffer
           /\ ui'.modified = ui.modified
           /\ ui'.embedCall = ui.embedCall
           /\ ui'.updateCall = ui.updateCall
    ]_vars

C20_Witness ==
  /\ ui.returned = "handleUpdateStego"
  /\ ui.stegoBuffer = JNull
  /\ ui.decryptedFiles # <<>>
  /\ ui.modified
  /\ ui.updateCall = JNull
  /\ ui.stegoResult # JNull

\* C21: a call to checkForHiddenData, extractFiles, reEmbedFiles or
\* xorEncrypt, whether it returns or throws, leaves the bytes of every
\* array that existed before it as they were (its input buffer, its input
\* file's data, the arrays earlier calls returned); and an array it returns
\* is a new one, other than its inputs, unless it is xorEncrypt with an
\* empty password, which transforms nothing.
C21_InputsNeverMutated ==
  [][heap'.calls # heap.calls
     => /\ Len(heap'.store) >= Len(heap.store)
        /\ \A r \in 1..Len(heap.store) : heap'.store[r] = heap.store[r]
        /\ \A r \in heap'.call.outputs :
             \/ r > Len(heap.store)
             \/ /\ heap'.call.fn = "xorEncrypt"
                /\ PasswordText(heap'.call.key) = <<>>
    ]_vars

C21_Witness ==
  /\ heap.calls = 2
  /\ heap.call.fn = "xorEncrypt"
  /\ heap.call.key = JStr(<< 107 >>)
  /\ heap.call.inputs = {2}
  /\ heap.call.outputs = {3}
  /\ heap.store[3] # heap.store[2]
  /\ Len(heap.store[1]) > 8

\* The name, type, size and data of each file of a list, in order.
WithoutIds(list) ==
  [j \in 1..Len(list) |->
     [name |-> list[j].name, size |-> list[j].size, type |-> list[j].type,
      data |-> list[j].data]]

\* C22: ids are no part of the format: reEmbedFiles calls on the same
\* buffer with the same password, for file lists that agree in every name,
\* type, size and data, resolve to the same bytes whatever the ids are;
\* and extractFiles calls on the same container return the same names,
\* types, sizes and contents (those packed), while the ids are whatever
\* generateId() gives each call.
C22_IdsNotInFormat ==
  /\ \A m, n \in 1..Len(ids.repacks) :
       WithoutIds(ids.repacks[m].files) = WithoutIds(ids.repacks[n].files)
         => ids.repacks[m].bytes = ids.repacks[n].bytes
  /\ \A m, n \in 1..Len(ids.extractions) :
       /\ WithoutIds(ids.extractions[m]) = WithoutIds(ids.extractions[n])
       /\ WithoutIds(ids.extractions[m]) = files

C22_Witness ==
  /\ Len(ids.extractions) = 2
  /\ Len(ids.repacks) = 2
  /\ \A j \in 1..MaxFiles :
       /\ ids.extractions[1][j].id # ids.extractions[2][j].id
       /\ ids.repacks[1].files[j].id # ids.repacks[2].files[j].id
  /\ password # JUndefined

\* The size values of the file entries of a parsed payload document, in order.
DeclaredSizes(doc) ==
  [j \in 1..Len(GetProp(doc.v, K_files).a) |->
     GetProp(GetProp(doc.v, K_files).a[j], K_size)]

SizesOf(list) == [j \in 1..Len(list) |-> list[j].size]

\* C23: the declared size is carried, not verified: extractFiles returns
\* for each entry the size value stored in the payload document, also when
\* it is not the byte length of the decoded content; and reEmbedFiles,
\* given such files, resolves and stores each size as it was given.
C23_DeclaredSizeCarried ==
  /\ extracted.ok
       => LET carried(doc) == SizesOf(extracted.files) = DeclaredSizes(doc)
          IN carried(ReadDocument(stegoBuffer, decryptPassword))
  /\ repacked.run
       => /\ repacked.resolved
          /\ LET kept(doc) == DeclaredSizes(doc) = SizesOf(repacked.files)
             IN kept(ReadDocument(repacked.bytes, repacked.password))

C23_Witness ==
  /\ extracted.ok
  /\ repacked.run
  /\ Len(repacked.files) = 1
  /\ repacked.files[1].size = JNum(7)
  /\ Len(repacked.files[1].data) = 1
  /\ extracted.files = repacked.files

\* The buffer embedFiles writes for another cover and the files and
\* password at hand.
EmbeddedIn(cover) ==
  embedFiles(cover, CHOOSE l \in FileLists : HiddenList(l) = files,
             embedPassword).blob.bytes

\* C24: the cover bytes are opaque: on embedFiles(c, files, p),
\* checkForHiddenData and extractFiles (with any password) give what they
\* give on embedFiles(c', files, p) for every other cover c', the empty
\* cover and the cover that ends in a valid trailer included; and the
\* buffer reEmbedFiles makes of embedFiles(c, files, p) starts with all of
\* c, followed by nothing but the new payload and its trailer.
C24_CoverOpaque ==
  /\ (origin = "embedFiles" /\ detect.run)
       => \A c \in Covers \ {coverFile} :
            /\ LET same(r) == r.found = detect.found
                              /\ r.hasPassword = detect.hasPassword
               IN same(checkForHiddenData(EmbeddedIn(c)))
            /\ extracted.run
                 => LET same(r) == /\ r.ok = extracted.ok
                                   /\ r.error = extracted.error
                                   /\ r.files = extracted.files
                    IN same(extractFiles(EmbeddedIn(c), decryptPassword))
  /\ origin = "reEmbedFiles"
       => /\ SubSeq(stegoBuffer, 1, Len(coverFile.data)) = coverFile.data
          /\ Len(stegoBuffer) = Len(coverFile.data) + LengthField(stegoBuffer) + 8

C24_Witness ==
  /\ origin = "embedFiles"
  /\ coverFile.data = << 123, 125, 0, 0, 0, 2, 83, 84, 69, 71 >>
  /\ checkForHiddenData(coverFile.data).found
  /\ Len(files) = 2
  /\ PasswordText(embedPassword) # <<>>
  /\ extracted.run
  /\ extracted.ok

\* C25: from b0 = embedFiles(cover, files0, p0) and through every sequence
\* of reEmbedFiles calls b(n+1) = reEmbedFiles(b(n), files(n+1), p(n+1)),
\* each b(n) is detected (found), its bytes before the payload and the
\* eight trailer bytes are the cover, byte for byte, and extractFiles with
\* the password last packed with returns the files last packed.
C25_CoverInvariantOverSequences ==
  origin \in {"embedFiles", "reEmbedFiles"}
  => /\ detect.run => detect.found
     /\ LengthField(stegoBuffer) > 0
     /\ Len(stegoBuffer) - 8 - LengthField(stegoBuffer) = Len(coverFile.data)
     /\ SubSeq(stegoBuffer, 1, Len(stegoBuffer) - 8 - LengthField(stegoBuffer))
          = coverFile.data
     /\ (extracted.run /\ decryptPassword = password)
          => /\ extracted.ok
             /\ extracted.files = files

C25_Witness ==
  /\ generation = MaxGenerations
  /\ checkForHiddenData(coverFile.data).found
  /\ detect.run
  /\ detect.found
  /\ extracted.ok
  /\ decryptPassword = JStr(<< 107 >>)
  /\ password = decryptPassword
  /\ embedPassword = JUndefined
  /\ Len(files) = 2

\* The comment of a file record (undefined when it has none).
CommentOf(f) == IF "comment" \in DOMAIN f THEN f.comment ELSE JUndefined

\* files[j] carries the comment text.
Commented(list, j, text) ==
  /\ j \in 1..Len(list)
  /\ CommentOf(list[j]) = JStr(text)

\* C26: comments survive the round trip: the container an awaited embedFiles
\* call of handleEmbed produces returns, on extraction, each non-empty
\* comment of embedComments on the file it was typed for; and the
\* container an awaited reEmbedFiles call of handleUpdateStego produces
\* returns each non-empty comment of the unpacked files on that file.
C26_CommentsSurvive ==
  /\ ui.embedCall # JNull
       => LET kept(r) ==
                \A j \in DOMAIN ui.embedCall.embedComments :
                  ui.embedCall.embedComments[j] # <<>>
                    => /\ r.ok
                       /\ Commented(r.files, j, ui.embedCall.embedComments[j])
          IN kept(extractFiles(embedFiles(ui.embedCall.coverFile,
                                          ui.embedCall.secretFiles,
                                          ui.embedCall.password).blob.bytes,
                               ui.embedCall.password))
  /\ ui.updateCall # JNull
       => LET kept(r) ==
                \A j \in 1..Len(ui.updateCall.files) :
                  CommentOf(ui.updateCall.files[j]) \notin {JUndefined, JStr(<<>>)}
                    => /\ r.ok
                       /\ j \in 1..Len(r.files)
                       /\ CommentOf(r.files[j]) = CommentOf(ui.updateCall.files[j])
          IN kept(extractFiles(reEmbedFiles(ui.updateCall.stegoBuffer,
                                            ui.updateCall.files,
                                            ui.updateCall.password).bytes,
                               ui.updateCall.password))

\* No handler of the unpack tab is between an await and its continuation.
NoHandlerInFlight ==
  /\ ui.reading = <<>>
  /\ ui.adding = JNull
  /\ ui.updateCall = JNull

\* C27: the modified flag tracks the buffer: whenever no handler is in
\* flight, a file is selected and loaded, modified is false and
\* decryptedFiles is not empty, the files
\* stored in stegoBuffer's payload are, in order, the name, type, size and
\* data of decryptedFiles.
C27_ModifiedTracksBuffer ==
  (/\ NoHandlerInFlight
   /\ ui.stegoFile # JNull
   /\ ~ui.modified
   /\ ui.decryptedFiles # <<>>
   /\ ui.stegoBuffer # JNull)
  => LET stored(r) == r.ok /\ r.files = WithoutIds(ui.decryptedFiles)
     IN stored(extractFiles(ui.stegoBuffer.bytes, UiPassword(ui.decryptPassword)))

\* C28: repack only follows a successful unpack: the buffer handed to an
\* awaited reEmbedFiles call is one that extractFiles, with the password of
\* the call, unpacks.
C28_RepackFollowsUnpack ==
  ui.updateCall # JNull
  => extractFiles(ui.updateCall.stegoBuffer, ui.updateCall.password).ok

\* C29: the loaded buffer belongs to the selected file: once no read is
\* pending, a stegoBuffer that holds the bytes of a selectable file holds
\* those of the selected stegoFile, and stegoDetected and needsPassword are
\* what checkForHiddenData answers for that file.
C29_BufferOfSelectedFile ==
  (/\ ui.stegoFile # JNull
   /\ ui.reading = <<>>
   /\ ui.stegoBuffer # JNull
   /\ ui.stegoBuffer.bytes \in { f.data : f \in UiStegoFiles })
  => /\ ui.stegoBuffer.bytes = ui.stegoFile.data
     /\ LET agrees(check) ==
              /\ ui.stegoDetected = check.found
              /\ check.found => ui.needsPassword = check.hasPassword
        IN agrees(checkForHiddenData(ui.stegoFile.data))

\* C30: the secret-file lists stay aligned: once no preview build is
\* pending, secretPreviews is as long as secretFiles, secretPreviews[i] is
\* the preview of secretFiles[i] for every i, and every comment of
\* embedComments is that of a listed file.
C30_SecretListsAligned ==
  ui.previewing = <<>>
  => /\ Len(ui.secretPreviews) = Len(ui.secretFiles)
     /\ \A i \in 1..Len(ui.secretFiles) :
          /\ i \in 1..Len(ui.secretPreviews)
          /\ ui.secretPreviews[i] = buildFilePreview(ui.secretFiles[i])
     /\ DOMAIN ui.embedComments \subseteq 1..Len(ui.secretFiles)

====
